---- MODULE Spec2Model ----
(***************************************************************************)
(* Incremental, chunked evaluation pipeline of oscanner:                   *)
(*   - SyncManager (evaluator/sync_manager.py): sync state, commits index  *)
(*   - evaluate_author_incremental (evaluator/services/                    *)
(*     evaluation_service.py) and the evaluate_author route                *)
(*   - CommitEvaluatorModerate (plugins/*/scan/__init__.py): partitioner,  *)
(*     sequential and parallel chunk evaluation                            *)
(***************************************************************************)
EXTENDS Integers, Sequences, FiniteSets, TLC

VARIABLES
    remote,         \* Commit Source: commits of the remote repository, newest first
    sync_state,     \* sync_state.json
    commits_index,  \* commits_index.json, newest first
    commit_files,   \* shas with a commits/<sha>.json file on disk
    sync_result,    \* value returned by sync_incremental, when it was the last step
    eval_cache,     \* evaluation cache file per lower-cased author
    eval_response,  \* outcome of the evaluation request, when it was the last step
    last_op,        \* the last operation and its inputs (history variable)
    par,            \* one parallel chunk evaluation (_evaluate_chunks_parallel)
    fn_in,          \* argument of a pure function under test
    fn_out,         \* its result
    disk            \* files seen one by one: contents during a write, cache files by path

vars == <<remote, sync_state, commits_index, commit_files, sync_result,
          eval_cache, eval_response, last_op, par, fn_in, fn_out, disk>>

----------------------------------------------------------------------------
(* Bounds *)

MaxRemote == 2          \* commits ever pushed to the remote
MaxBatch == 3           \* length of a merge_commits batch / index (pure check)
MaxSha == 3             \* shas 1..MaxSha in the merge_commits pure check
MaxList == 45           \* length of a commit list given to the partitioner
MaxChunkCommits == 46   \* author commits of one parallel chunked evaluation
MaxMergeCount == 12     \* commit counts in the weighted-merge pure check
MaxEvaluated == 3       \* cap of a cached total_commits_evaluated

(* Program constants *)

PageLimit == 100        \* fetch_commits_list(limit=100)
MaxHistory == 50        \* sync_history keeps the last 50 entries
MaxCommits == 150       \* max_commits of a first evaluation
ChunkThreshold == 20    \* chunk when more than 20 author commits
ChunkModerate == 15     \* commits per chunk, mode "moderate"
ChunkOther == 20        \* commits per chunk, other modes
NeutralScore == 50      \* _parse_llm_response default

NoSha == 0              \* a missing / None sha

----------------------------------------------------------------------------
(* Generic helpers *)

Min(a, b) == IF a <= b THEN a ELSE b

Take(s, n) == SubSeq(s, 1, Min(n, Len(s)))

\* [x for x in s if x in keep]  (keep: set of sequence elements)
FilterSeq(s, keep) == SelectSeq(s, LAMBDA x : x \in keep)

Range(s) == {s[i] : i \in 1..Len(s)}

Shas(s) == [i \in 1..Len(s) |-> s[i].sha]

\* Python 3 round(): round half to even, for num >= 0, den > 0
RoundHalfEven(num, den) ==
    LET q == num \div den
        r == num % den
    IN  IF 2 * r < den THEN q
        ELSE IF 2 * r > den THEN q + 1
        ELSE IF q % 2 = 0 THEN q ELSE q + 1

\* Python int() of a non-negative quotient: truncation
IntDiv(num, den) == num \div den

----------------------------------------------------------------------------
(* Commit Source *)

CommitAuthors == {"Alice", "bob"}

\* commit dates grow with the order of pushes
CommitDate(c) == c.sha

NoDate == 0

----------------------------------------------------------------------------
(* Score vectors and evaluation results *)

Dimensions == {"ai_fullstack", "ai_architecture", "cloud_native",
               "open_source", "intelligent_dev", "leadership"}

Uniform(v) == [d \in Dimensions |-> v]

\* an absent value (None): no cache file, no evaluation in a response
NoEval ==
    [keys |-> {}, username |-> "", total_commits_evaluated |-> 0,
     new_commits_count |-> 0, last_commit_sha |-> NoSha, scores |-> Uniform(0),
     incremental |-> FALSE, chunked |-> FALSE, chunks_processed |-> 0]

\* no evaluation request was the last step
NoResponse == [status |-> 0, evaluation |-> NoEval]

----------------------------------------------------------------------------
(* Sync State Tracker: evaluator/sync_manager.py *)

DefaultSyncState ==
    [last_commit_sha |-> NoSha, last_commit_date |-> NoDate,
     total_commits_fetched |-> 0, sync_history |-> <<>>]

\* collector.fetch_commits_list(owner, repo, limit=100, since=...)
FetchCommitsList(since) ==
    Take(FilterSeq(remote, {c \in Range(remote) : since = NoDate \/ CommitDate(c) >= since}),
         PageLimit)

RECURSIVE PrefixBefore(_, _)
\* the commits of page that precede the first commit whose sha is last_sha
PrefixBefore(page, last_sha) ==
    IF page = <<>> \/ Head(page).sha = last_sha THEN <<>>
    ELSE <<Head(page)>> \o PrefixBefore(Tail(page), last_sha)

RECURSIVE PrefixThrough(_, _)
PrefixThrough(page, last_sha) ==
    IF page = <<>> THEN <<>>
    ELSE IF Head(page).sha = last_sha THEN <<Head(page)>>
    ELSE <<Head(page)>> \o PrefixThrough(Tail(page), last_sha)

\* get_new_commits with an off-by-one boundary (includes the boundary commit)
GetNewCommitsInclusive(state, list_ok) ==
    IF ~list_ok THEN <<>>
    ELSE IF state.last_commit_sha = NoSha THEN FetchCommitsList(state.last_commit_date)
    ELSE PrefixThrough(FetchCommitsList(state.last_commit_date), state.last_commit_sha)

GetNewCommits(state, list_ok) ==
    IF ~list_ok THEN <<>>
    ELSE IF state.last_commit_sha = NoSha THEN FetchCommitsList(state.last_commit_date)
    ELSE PrefixBefore(FetchCommitsList(state.last_commit_date), state.last_commit_sha)

RECURSIVE NewEntries(_, _)
\* merge_commits, lines 266-289: entries for the batch commits that carry a
\* sha not yet in existing_shas; each accepted sha is added to existing_shas
NewEntries(batch, existing_shas) ==
    IF batch = <<>> THEN <<>>
    ELSE LET c == Head(batch)
         IN  IF c.sha = NoSha \/ c.sha \in existing_shas
             THEN NewEntries(Tail(batch), existing_shas)
             ELSE <<c>> \o NewEntries(Tail(batch), existing_shas \cup {c.sha})

RECURSIVE NewEntriesNoMark(_, _)
\* merge_commits without line 289 (accepted shas are not marked)
NewEntriesNoMark(batch, existing_shas) ==
    IF batch = <<>> THEN <<>>
    ELSE LET c == Head(batch)
         IN  IF c.sha = NoSha \/ c.sha \in existing_shas
             THEN NewEntriesNoMark(Tail(batch), existing_shas)
             ELSE <<c>> \o NewEntriesNoMark(Tail(batch), existing_shas)

MergeCommitsNoMark(batch, index) ==
    LET new_entries == NewEntriesNoMark(batch, Range(Shas(index)) \ {NoSha})
    IN  [index |-> new_entries \o index, added |-> Len(new_entries)]

\* merge_commits(new_commits): the merged index and the returned count
MergeCommits(batch, index) ==
    LET new_entries == NewEntries(batch, Range(Shas(index)) \ {NoSha})
    IN  [index |-> new_entries \o index, added |-> Len(new_entries)]

\* a trim that keeps the oldest entries
TrimHistoryOldest(history) ==
    IF Len(history) > MaxHistory THEN SubSeq(history, 1, MaxHistory) ELSE history

\* sync_incremental lines 224-225: sync_history[-50:] when longer than 50
TrimHistory(history) ==
    IF Len(history) > MaxHistory
    THEN SubSeq(history, Len(history) - MaxHistory + 1, Len(history))
    ELSE history

NoSyncResult == [commits_added |-> 0, total_commits |-> 0, status |-> "none"]

NoOp == [op |-> "none"]

\* sync_incremental(collector); list_ok: fetch_commits_list succeeds,
\* ok: the shas whose fetch_commit_data succeeds
SyncIncremental(list_ok, ok) ==
    LET state == sync_state
        new_commits == GetNewCommits(state, list_ok)
        detailed == FilterSeq(new_commits, {c \in Range(new_commits) : c.sha \in ok})
        merged == MergeCommits(detailed, commits_index)
        first_commit == new_commits[1]
        history == Append(state.sync_history,
                          [commits_added |-> merged.added, last_sha |-> first_commit.sha])
    IN  /\ last_op' = [op |-> "sync", list_ok |-> list_ok,
                       new |-> Shas(new_commits), ok |-> ok \cap Range(Shas(new_commits)),
                       before |-> state]
        /\ IF new_commits = <<>> THEN
               /\ sync_result' = [commits_added |-> 0,
                                  total_commits |-> state.total_commits_fetched,
                                  status |-> "up_to_date"]
               /\ UNCHANGED <<sync_state, commits_index, commit_files>>
           ELSE IF detailed = <<>> THEN
               /\ sync_result' = [commits_added |-> 0,
                                  total_commits |-> state.total_commits_fetched,
                                  status |-> "error"]
               /\ UNCHANGED <<sync_state, commits_index, commit_files>>
           ELSE
               /\ commit_files' = commit_files \cup Range(Shas(detailed))
               /\ commits_index' = merged.index
               /\ sync_state' =
                      [last_commit_sha |-> first_commit.sha,
                       last_commit_date |-> CommitDate(first_commit),
                       total_commits_fetched |-> state.total_commits_fetched + merged.added,
                       sync_history |-> TrimHistory(history)]
               /\ sync_result' = [commits_added |-> merged.added,
                                  total_commits |-> state.total_commits_fetched + merged.added,
                                  status |-> "synced"]
        /\ eval_response' = NoResponse
        /\ UNCHANGED <<remote, eval_cache, par, fn_in, fn_out, disk>>

Sync == \E list_ok \in BOOLEAN, ok \in SUBSET (1..MaxRemote) : SyncIncremental(list_ok, ok)

\* the Commit Source receives a new commit (environment)
Push ==
    /\ Len(remote) < MaxRemote
    /\ \E a \in CommitAuthors :
           remote' = <<[sha |-> Len(remote) + 1, author |-> a]>> \o remote
    /\ last_op' = [op |-> "push"]
    /\ sync_result' = NoSyncResult
    /\ eval_response' = NoResponse
    /\ UNCHANGED <<sync_state, commits_index, commit_files, eval_cache, par, fn_in, fn_out, disk>>

----------------------------------------------------------------------------
(* Scoring Oracle and score vectors *)

MixedVector == [d \in Dimensions |-> IF d = "ai_fullstack" THEN 0 ELSE 60]

\* score vectors the oracle answers with (after _parse_llm_response)
OracleVectors == {Uniform(80), MixedVector}

MaxFailAt == 1          \* the oracle call of a request that may fail (0: none)

\* one request's oracle behaviour: call number fail_at fails (transport
\* error on every candidate model), every other call answers vec
OracleScripts ==
    {[fail_at |-> 0, vec |-> v] : v \in OracleVectors}
    \cup {[fail_at |-> k, vec |-> Uniform(80)] : k \in 1..MaxFailAt}

Answer(o, k) == [ok |-> o.fail_at # k, scores |-> o.vec]

----------------------------------------------------------------------------
(* Commit Partitioner and Chunk Merger: plugins/*/scan/__init__.py *)

\* a partitioner whose slices stop one commit short
PartitionShort(commits, size) ==
    [k \in 1..((Len(commits) + size - 1) \div size) |->
        SubSeq(commits, (k - 1) * size + 1, Min(k * size - 1, Len(commits)))]

\* [commits[i : i + size] for i in range(0, len(commits), size)]
Partition(commits, size) ==
    [k \in 1..((Len(commits) + size - 1) \div size) |->
        SubSeq(commits, (k - 1) * size + 1, Min(k * size, Len(commits)))]

RECURSIVE Concat(_)
Concat(chunks) ==
    IF chunks = <<>> THEN <<>> ELSE Head(chunks) \o Concat(Tail(chunks))

\* _merge_evaluations: int(round((prev + new) / 2)) per dimension
MergeEvaluations(prev, new) ==
    [d \in Dimensions |-> RoundHalfEven(prev[d] + new[d], 2)]

RECURSIVE SeqAccumulate(_, _, _, _)
\* _evaluate_chunks_sequential, the loop from chunk idx on; acc is the
\* accumulated vector (only read when idx > 1)
SeqAccumulate(n, o, idx, acc) ==
    IF idx > n THEN [raised |-> FALSE, calls |-> n, scores |-> acc]
    ELSE LET a == Answer(o, idx)
         IN  IF ~a.ok THEN [raised |-> TRUE, calls |-> idx, scores |-> Uniform(0)]
             ELSE SeqAccumulate(n, o, idx + 1,
                                IF idx = 1 THEN a.scores ELSE MergeEvaluations(acc, a.scores))

RECURSIVE SumScores(_, _)
SumScores(results, d) ==
    IF results = <<>> THEN 0 ELSE Head(results).scores[d] + SumScores(Tail(results), d)

\* _simple_average_merge: int(sum(scores) / len(scores)) per dimension
SimpleAverageMerge(chunk_results) ==
    IF chunk_results = <<>> THEN Uniform(0)
    ELSE [d \in Dimensions |-> IntDiv(SumScores(chunk_results, d), Len(chunk_results))]

RECURSIVE InsertByIdx(_, _)
InsertByIdx(sorted, r) ==
    IF sorted = <<>> THEN <<r>>
    ELSE IF r.chunk_idx < Head(sorted).chunk_idx THEN <<r>> \o sorted
    ELSE <<Head(sorted)>> \o InsertByIdx(Tail(sorted), r)

\* the sort step left out: results stay in completion order
KeepCompletionOrder(results) == results

RECURSIVE SortByChunkIdx(_)
\* chunk_results.sort(key=lambda x: x["chunk_idx"])  (stable)
SortByChunkIdx(results) ==
    IF results = <<>> THEN <<>>
    ELSE InsertByIdx(SortByChunkIdx(SubSeq(results, 1, Len(results) - 1)),
                     results[Len(results)])

\* _merge_chunk_results_with_llm: one synthesis call, mean fallback
MergeChunkResultsWithLLM(chunk_results, synthesis) ==
    IF synthesis.ok THEN synthesis.scores ELSE SimpleAverageMerge(chunk_results)

\* a parallel evaluation that drops a failed chunk instead of raising
ParallelChunksLenient(n, o) ==
    LET results == [i \in 1..n |-> [chunk_idx |-> i, scores |-> Answer(o, i).scores]]
    IN  [raised |-> FALSE, calls |-> n + 1,
         scores |-> MergeChunkResultsWithLLM(SortByChunkIdx(results), Answer(o, n + 1))]

\* _evaluate_chunks_parallel as one step: chunk idx gets Answer(o, idx),
\* the synthesis call is call n + 1
ParallelChunks(n, o) ==
    LET results == [i \in 1..n |-> [chunk_idx |-> i, scores |-> Answer(o, i).scores]]
    IN  IF \E i \in 1..n : ~Answer(o, i).ok
        THEN [raised |-> TRUE, calls |-> n, scores |-> Uniform(0)]
        ELSE [raised |-> FALSE, calls |-> n + 1,
              scores |-> MergeChunkResultsWithLLM(SortByChunkIdx(results), Answer(o, n + 1))]

----------------------------------------------------------------------------
(* Chunk Evaluator entry point: CommitEvaluatorModerate.evaluate_engineer *)

\* str.lower() on the author names of the model
Lower(s) == IF s = "Alice" THEN "alice" ELSE s

\* is_commit_by_author / _is_commit_by_author
IsCommitByAuthor(c, username) == Lower(c.author) = Lower(username)

PluginKeys == {"username", "total_commits_analyzed", "files_loaded", "mode",
               "scores", "commits_summary"}

ChunkedKeys == {"chunked", "chunks_processed"}

\* _get_empty_evaluation of the plugin
PluginEmptyEvaluation(username) ==
    [raised |-> FALSE, calls |-> 0, keys |-> PluginKeys, username |-> username,
     total_commits_analyzed |-> 0, scores |-> Uniform(0),
     chunked |-> FALSE, chunks_processed |-> 0]

\* an evaluator that ignores max_commits
AnalyzedCommitsAll(commits, max_commits) == commits

\* line 147: commits[: int(max_commits)]
AnalyzedCommits(commits, max_commits) == Take(commits, max_commits)

EvaluateEngineer(commits, username, max_commits, use_chunking, parallel, o) ==
    LET analyzed == AnalyzedCommits(commits, max_commits)
        author_commits == FilterSeq(analyzed, {c \in Range(analyzed) : IsCommitByAuthor(c, username)})
        n == Len(author_commits)
    IN  IF commits = <<>> \/ author_commits = <<>> THEN PluginEmptyEvaluation(username)
        ELSE IF use_chunking /\ n > ChunkThreshold THEN
            LET chunks == Partition(author_commits, ChunkModerate)
                r == IF parallel THEN ParallelChunks(Len(chunks), o)
                     ELSE SeqAccumulate(Len(chunks), o, 1, Uniform(0))
            IN  [raised |-> r.raised, calls |-> r.calls,
                 keys |-> PluginKeys \cup ChunkedKeys, username |-> username,
                 total_commits_analyzed |-> n, scores |-> r.scores,
                 chunked |-> TRUE, chunks_processed |-> Len(chunks)]
        ELSE
            LET a == Answer(o, 1)
            IN  [raised |-> ~a.ok, calls |-> 1, keys |-> PluginKeys, username |-> username,
                 total_commits_analyzed |-> n,
                 scores |-> IF a.ok THEN a.scores ELSE Uniform(0),
                 chunked |-> FALSE, chunks_processed |-> 0]

----------------------------------------------------------------------------
(* Incremental Merger: evaluator/services/evaluation_service.py *)

EmptyKeys == {"username", "total_commits_evaluated", "new_commits_count",
              "scores", "commits_summary", "mode", "incremental"}

FirstKeys == {"last_commit_sha", "total_commits_evaluated", "new_commits_count",
              "evaluated_at", "incremental"}

MergedKeys == {"username", "total_commits_evaluated", "new_commits_count",
               "last_commit_sha", "evaluated_at", "scores", "commits_summary",
               "mode", "incremental", "files_loaded", "chunked", "chunks_processed"}

\* an empty result that scores every dimension 50 instead of 0
GetEmptyEvaluationNeutral(username) ==
    [keys |-> EmptyKeys, username |-> username, total_commits_evaluated |-> 0,
     new_commits_count |-> 0, last_commit_sha |-> NoSha, scores |-> Uniform(NeutralScore),
     incremental |-> FALSE, chunked |-> FALSE, chunks_processed |-> 0]

\* get_empty_evaluation(username): no last_commit_sha key
GetEmptyEvaluation(username) ==
    [keys |-> EmptyKeys, username |-> username, total_commits_evaluated |-> 0,
     new_commits_count |-> 0, last_commit_sha |-> NoSha, scores |-> Uniform(0),
     incremental |-> FALSE, chunked |-> FALSE, chunks_processed |-> 0]

\* lines 250-262: weighted average of one numeric dimension, int() truncation,
\* a zero score counts as missing
MergeScore(prev_val, prev_count, new_val, new_count) ==
    IF prev_val # 0 /\ new_val # 0
    THEN IntDiv(prev_val * prev_count + new_val * new_count, prev_count + new_count)
    ELSE IF new_val # 0 THEN new_val
    ELSE IF prev_val # 0 THEN prev_val
    ELSE 0

\* a merge that keeps the counters of the new evaluation only
MergedResultNewOnly(author, author_commits, prev_count, new_count, prev_scores, e) ==
    [keys |-> MergedKeys, username |-> author,
     total_commits_evaluated |-> new_count,
     new_commits_count |-> new_count,
     last_commit_sha |-> author_commits[1].sha,
     scores |-> [d \in Dimensions |->
                    MergeScore(prev_scores[d], prev_count, e.scores[d], new_count)],
     incremental |-> FALSE, chunked |-> e.chunked,
     chunks_processed |-> e.chunks_processed]

\* lines 217-288: the merged result of an incremental evaluation; e is the
\* evaluation of the new commits
MergedResult(author, author_commits, prev_count, new_count, prev_scores, e) ==
    [keys |-> MergedKeys, username |-> author,
     total_commits_evaluated |-> prev_count + new_count,
     new_commits_count |-> new_count,
     last_commit_sha |-> author_commits[1].sha,
     scores |-> [d \in Dimensions |->
                    MergeScore(prev_scores[d], prev_count, e.scores[d], new_count)],
     incremental |-> TRUE, chunked |-> e.chunked,
     chunks_processed |-> e.chunks_processed]

\* lines 104-111: the author filter (aliases replace the author when given)
AuthorCommits(commits, author, aliases) ==
    IF aliases # <<>>
    THEN FilterSeq(commits, {c \in Range(commits) :
                                \E i \in 1..Len(aliases) : IsCommitByAuthor(c, aliases[i])})
    ELSE FilterSeq(commits, {c \in Range(commits) : IsCommitByAuthor(c, author)})

\* the answer of evaluate_author_incremental: status 200 with an evaluation,
\* or the status of the HTTPException raised; handed: the shas given to
\* evaluator.evaluate_engineer, calls: oracle calls made
Raised(status, handed, calls) ==
    [status |-> status, evaluation |-> NoEval, handed |-> handed, calls |-> calls]

Returned(evaluation, handed, calls) ==
    [status |-> 200, evaluation |-> evaluation, handed |-> handed, calls |-> calls]

\* an evaluation that takes its boundary from the sync state
EvaluationBoundaryOfSync(previous_evaluation) == sync_state.last_commit_sha

\* line 163: the boundary of the evaluation is the cache entry's own sha
EvaluationBoundary(previous_evaluation) == previous_evaluation.last_commit_sha

RECURSIVE EvaluateAuthorIncremental(_, _, _, _, _, _, _, _)
EvaluateAuthorIncremental(commits, author, previous_evaluation, use_chunking, aliases, factory, parallel, o) ==
    LET author_commits == AuthorCommits(commits, author, aliases)
    IN
    IF author_commits = <<>> THEN Returned(GetEmptyEvaluation(author), <<>>, 0)
    ELSE IF ~factory THEN Raised(500, <<>>, 0)
    ELSE IF previous_evaluation.keys = {} THEN
        \* Case 1: no previous evaluation
        LET e == EvaluateEngineer(author_commits, author, MaxCommits, use_chunking, parallel, o)
            count == Min(Len(author_commits), MaxCommits)
        IN  IF e.raised THEN Raised(502, Shas(author_commits), e.calls)
            ELSE Returned(
                   [keys |-> e.keys \cup FirstKeys, username |-> e.username,
                    total_commits_evaluated |-> count, new_commits_count |-> count,
                    last_commit_sha |-> author_commits[1].sha, scores |-> e.scores,
                    incremental |-> FALSE, chunked |-> e.chunked,
                    chunks_processed |-> e.chunks_processed],
                   Shas(author_commits), e.calls)
    ELSE IF EvaluationBoundary(previous_evaluation) = NoSha THEN
        \* line 169: the recursive call passes neither aliases nor evaluator_factory
        EvaluateAuthorIncremental(commits, author, NoEval, use_chunking,
                                  <<>>, FALSE, TRUE, o)
    ELSE
        LET new_commits == PrefixBefore(author_commits, EvaluationBoundary(previous_evaluation))
        IN
        IF new_commits = <<>> THEN Returned(previous_evaluation, <<>>, 0)
        ELSE
            LET e == EvaluateEngineer(new_commits, author, Len(new_commits),
                                      use_chunking, parallel, o)
                prev_count == previous_evaluation.total_commits_evaluated
                new_count == Len(new_commits)
            IN  IF e.raised THEN Raised(502, Shas(new_commits), e.calls)
                ELSE Returned(MergedResult(author, author_commits, prev_count, new_count,
                                           previous_evaluation.scores, e),
                              Shas(new_commits), e.calls)

----------------------------------------------------------------------------
(* Evaluation Cache and the evaluate_author route: evaluator/routes/evaluation.py *)

\* lower-cased author names a cache file can be named after
CacheKeys == {"alice"}

\* author names in requests
RequestAuthors == {"alice"}

\* request_body["aliases"]: absent or one alias
RequestAliases == {<<>>, <<"Alice">>, <<"bob">>}

\* the query parameters <<use_chunking, parallel_chunking>>; parallel_chunking
\* is only read when use_chunking is set
ChunkingModes == {<<TRUE, TRUE>>, <<TRUE, FALSE>>, <<FALSE, TRUE>>}

\* get_evaluation_cache_path for one strategy: (author or "").strip().lower()
CacheKey(author) == Lower(author)

\* load_commits_from_local(data_dir, limit=None): index entries whose
\* commits/<sha>.json exists
LoadCommitsFromLocal ==
    FilterSeq(commits_index, {c \in Range(commits_index) : c.sha # NoSha /\ c.sha \in commit_files})

\* POST /api/evaluate/{owner}/{repo}/{author}, single author path (lines 154-216)
\* cap: the largest total_commits_evaluated the model follows
EvaluateAuthorCapped(author, raw_aliases, use_cache, use_chunking, parallel, o, cap) ==
    LET aliases == [i \in 1..Len(raw_aliases) |-> Lower(raw_aliases[i])]
        commits == LoadCommitsFromLocal
        key == CacheKey(author)
        previous_evaluation == IF use_cache THEN eval_cache[key] ELSE NoEval
        r == EvaluateAuthorIncremental(commits, author, previous_evaluation, use_chunking,
                                       aliases, TRUE, parallel, o)
        evaluation == [r.evaluation EXCEPT !.keys = @ \cup {"plugin", "plugin_version"}]
    IN  /\ Len(aliases) <= 1
        /\ evaluation.total_commits_evaluated <= cap
        /\ IF commits = <<>> THEN
               /\ eval_response' = [status |-> 404, evaluation |-> NoEval]
               /\ last_op' = [op |-> "evaluate", author |-> author, aliases |-> aliases,
                              use_cache |-> use_cache, previous |-> NoEval,
                              handed |-> <<>>, calls |-> 0, oracle |-> o]
               /\ UNCHANGED eval_cache
           ELSE
               /\ last_op' = [op |-> "evaluate", author |-> author, aliases |-> aliases,
                              use_cache |-> use_cache, previous |-> previous_evaluation,
                              handed |-> r.handed, calls |-> r.calls, oracle |-> o]
               /\ IF r.status = 200 THEN
                      /\ eval_response' = [status |-> 200, evaluation |-> evaluation]
                      /\ eval_cache' = IF use_cache
                                       THEN [eval_cache EXCEPT ![key] = evaluation]
                                       ELSE eval_cache
                  ELSE
                      /\ eval_response' = [status |-> r.status, evaluation |-> NoEval]
                      /\ UNCHANGED eval_cache
        /\ sync_result' = NoSyncResult
        /\ UNCHANGED <<remote, sync_state, commits_index, commit_files, par, fn_in, fn_out, disk>>

\* the route in the pipeline of Spec: counts are capped at MaxEvaluated
EvaluateAuthor(author, raw_aliases, use_cache, use_chunking, parallel, o) ==
    EvaluateAuthorCapped(author, raw_aliases, use_cache, use_chunking, parallel, o, MaxEvaluated)

Evaluate ==
    \E author \in RequestAuthors, raw_aliases \in RequestAliases,
       use_cache \in BOOLEAN, mode \in ChunkingModes, o \in OracleScripts :
        EvaluateAuthor(author, raw_aliases, use_cache, mode[1], mode[2], o)

\* a direct call of the service function without an evaluator factory (as
\* its own recursion at line 169 does); the result is returned, nothing is cached
CallIncremental ==
    \E author \in RequestAuthors, aliases \in {<<>>, <<"alice">>, <<"bob">>},
       key \in CacheKeys :
        LET previous_evaluation == eval_cache[key]
            r == EvaluateAuthorIncremental(LoadCommitsFromLocal, author, previous_evaluation,
                                           TRUE, aliases, FALSE, TRUE,
                                           [fail_at |-> 0, vec |-> Uniform(NeutralScore)])
        IN  /\ last_op' = [op |-> "call", author |-> author, aliases |-> aliases,
                           factory |-> FALSE, previous |-> previous_evaluation,
                           handed |-> r.handed, calls |-> r.calls]
            /\ eval_response' = [status |-> r.status, evaluation |-> r.evaluation]
            /\ sync_result' = NoSyncResult
            /\ UNCHANGED <<remote, sync_state, commits_index, commit_files,
                           eval_cache, par, fn_in, fn_out, disk>>

----------------------------------------------------------------------------
(* The pipeline: Commit Source, sync and evaluation requests *)

NoPar == [pc |-> "idle"]

NoFn == [f |-> "none"]

\* no file write is being followed
NoDisk == [pc |-> "idle"]

\* the stores of a repository before its first sync and first evaluation
PipelineInit ==
    /\ remote = <<>>
    /\ sync_state = DefaultSyncState
    /\ commits_index = <<>>
    /\ commit_files = {}
    /\ sync_result = NoSyncResult
    /\ eval_cache = [k \in CacheKeys |-> NoEval]
    /\ eval_response = NoResponse
    /\ last_op = NoOp

Init ==
    /\ PipelineInit
    /\ par = NoPar
    /\ fn_in = NoFn
    /\ fn_out = NoFn
    /\ disk = NoDisk

Next == Push \/ Sync \/ Evaluate \/ CallIncremental

Spec == Init /\ [][Next]_vars

----------------------------------------------------------------------------
(* Parallel chunk evaluation, step by step: _evaluate_chunks_parallel *)

MaxParallelWorkers == 3     \* max_parallel_workers default

\* what one oracle call chain of the parallel evaluation ends in
ParOutcomes ==
    {[ok |-> TRUE, scores |-> Uniform(80)], [ok |-> TRUE, scores |-> MixedVector],
     [ok |-> FALSE, scores |-> Uniform(0)]}

Iota(n) == [i \in 1..n |-> i]

UnchangedPipeline ==
    UNCHANGED <<remote, sync_state, commits_index, commit_files, sync_result,
                eval_cache, eval_response, last_op>>

\* the submitted calls that were not done when the failure of a chunk was
\* collected: none before a failure is collected
NoSiblings == [running |-> {}, queued |-> <<>>]

\* no context was built for the chunk yet
NoPrompt == [built |-> FALSE, commits |-> <<>>, previous_evaluation |-> <<>>]

\* a parallel context that carries the results collected so far, as the
\* sequential mode's previous_evaluation does
ParallelContextChained(chunk, chunk_results) ==
    [built |-> TRUE, commits |-> chunk, previous_evaluation |-> chunk_results]

\* evaluate_single_chunk lines 247-256: the context of a chunk is built from
\* the chunk's commits alone; chunk_results is in scope and not read
ParallelContext(chunk, chunk_results) ==
    [built |-> TRUE, commits |-> chunk, previous_evaluation |-> <<>>]

\* the evaluation of `count` author commits starts: the commits are
\* partitioned and every chunk is submitted to the executor (lines 263-267);
\* script[i] is what the call for chunk i will end in, script[n + 1] the
\* synthesis call
InitPar ==
    /\ PipelineInit
    /\ fn_in = NoFn
    /\ fn_out = NoFn
    /\ disk = NoDisk
    /\ \E count \in (ChunkThreshold + 1)..MaxChunkCommits :
        LET chunks == Partition(Iota(count), ChunkModerate)
            n == Len(chunks)
        IN  \E script \in [1..(n + 1) -> ParOutcomes] :
                par = [pc |-> "running", chunks |-> chunks, n |-> n, script |-> script,
                       queued |-> Iota(n), running |-> {}, finished |-> {},
                       chunk_results |-> <<>>, merge_input |-> <<>>,
                       scores |-> Uniform(0),
                       prompts |-> [i \in 1..n |-> NoPrompt],
                       at_raise |-> NoSiblings]

\* a free worker thread takes the next submitted chunk and builds its context
ParDispatch ==
    /\ par.pc \in {"running", "raising"}
    /\ par.queued # <<>>
    /\ Cardinality(par.running) < MaxParallelWorkers
    /\ LET idx == Head(par.queued)
       IN  par' = [par EXCEPT !.queued = Tail(@), !.running = @ \cup {idx},
                              !.prompts[idx] = ParallelContext(par.chunks[idx],
                                                               par.chunk_results)]
    /\ UnchangedPipeline /\ UNCHANGED <<fn_in, fn_out, disk>>

\* evaluate_single_chunk(idx, chunk) returns or raises: its future is done
ParComplete ==
    /\ \E idx \in par.running :
           par' = [par EXCEPT !.running = @ \ {idx}, !.finished = @ \cup {idx}]
    /\ UnchangedPipeline /\ UNCHANGED <<fn_in, fn_out, disk>>

\* the as_completed loop takes a done future (lines 269-276): its result is
\* appended, its exception is re-raised
ParCollect ==
    /\ par.pc = "running"
    /\ \E idx \in par.finished :
           IF par.script[idx].ok
           THEN par' = [par EXCEPT !.finished = @ \ {idx},
                                   !.chunk_results = Append(@, [chunk_idx |-> idx,
                                                                scores |-> par.script[idx].scores])]
           ELSE par' = [par EXCEPT !.finished = @ \ {idx}, !.pc = "raising",
                                   !.at_raise = [running |-> par.running,
                                                 queued |-> par.queued]]
    /\ UnchangedPipeline /\ UNCHANGED <<fn_in, fn_out, disk>>

\* an executor that is left at once, with calls still queued or running
ExecutorLeftAtOnce(p) == TRUE

\* line 263: leaving the with-block is shutdown(wait=True), which returns
\* when every submitted call has run and none is left queued or running
ExecutorDrained(p) == p.queued = <<>> /\ p.running = {}

\* leaving the executor's with-block waits for every submitted call, then
\* the exception leaves _evaluate_chunks_parallel
ParRaise ==
    /\ par.pc = "raising"
    /\ ExecutorDrained(par)
    /\ par' = [par EXCEPT !.pc = "failed"]
    /\ UnchangedPipeline /\ UNCHANGED <<fn_in, fn_out, disk>>

\* lines 278-283: sort by chunk index, then the synthesis call
ParMerge ==
    /\ par.pc = "running"
    /\ Len(par.chunk_results) = par.n
    /\ LET merge_input == SortByChunkIdx(par.chunk_results)
       IN  par' = [par EXCEPT !.pc = "done", !.merge_input = merge_input,
                              !.scores = MergeChunkResultsWithLLM(merge_input,
                                                                  par.script[par.n + 1])]
    /\ UnchangedPipeline /\ UNCHANGED <<fn_in, fn_out, disk>>

NextPar == ParDispatch \/ ParComplete \/ ParCollect \/ ParRaise \/ ParMerge

SpecPar == InitPar /\ [][NextPar]_vars

----------------------------------------------------------------------------
(* Pure functions applied to bounded inputs *)

\* every sequence over S of length at most n
RECURSIVE SeqsUpTo(_, _)
SeqsUpTo(S, n) ==
    IF n = 0 THEN {<<>>}
    ELSE LET shorter == SeqsUpTo(S, n - 1)
         IN  shorter \cup {Append(q, x) : q \in shorter, x \in S}

NoDuplicates(q) == \A i, j \in 1..Len(q) : q[i] = q[j] => i = j

AsCommits(shas) == [i \in 1..Len(shas) |-> [sha |-> shas[i], author |-> "bob"]]

\* the partitioner on the commit lists 1..n, for both chunk sizes
InitPartition ==
    /\ PipelineInit
    /\ par = NoPar
    /\ fn_in \in {[f |-> "partition", commits |-> Iota(n), size |-> size] :
                     n \in 0..MaxList, size \in {ChunkModerate, ChunkOther}}
    /\ fn_out = NoFn
    /\ disk = NoDisk

ApplyPartition ==
    /\ fn_in.f = "partition"
    /\ fn_out = NoFn
    /\ fn_out' = [f |-> "partition", chunks |-> Partition(fn_in.commits, fn_in.size)]
    /\ UnchangedPipeline /\ UNCHANGED <<par, fn_in, disk>>

SpecPartition == InitPartition /\ [][ApplyPartition]_vars

\* score values and commit counts of the weighted merge
MergeScoreValues == {0, 40, 60, 72, 80, 100}

MergeCounts == (1..MaxMergeCount) \cup {42}

InitMergeScore ==
    /\ PipelineInit
    /\ par = NoPar
    /\ fn_in \in [f : {"merge_score"}, prev_val : MergeScoreValues, prev_count : MergeCounts,
                  new_val : MergeScoreValues, new_count : MergeCounts]
    /\ fn_out = NoFn
    /\ disk = NoDisk

ApplyMergeScore ==
    /\ fn_in.f = "merge_score"
    /\ fn_out = NoFn
    /\ fn_out' = [f |-> "merge_score",
                  merged |-> MergeScore(fn_in.prev_val, fn_in.prev_count,
                                        fn_in.new_val, fn_in.new_count)]
    /\ UnchangedPipeline /\ UNCHANGED <<par, fn_in, disk>>

SpecMergeScore == InitMergeScore /\ [][ApplyMergeScore]_vars

\* merge_commits on every batch over the shas 1..MaxSha and every
\* sha-deduplicated index
InitMergeCommits ==
    /\ PipelineInit
    /\ par = NoPar
    /\ fn_in \in {[f |-> "merge_commits", batch |-> AsCommits(b), index |-> AsCommits(x)] :
                     b \in SeqsUpTo(1..MaxSha, MaxBatch),
                     x \in {q \in SeqsUpTo(1..MaxSha, MaxBatch) : NoDuplicates(q)}}
    /\ fn_out = NoFn
    /\ disk = NoDisk

ApplyMergeCommits ==
    /\ fn_in.f = "merge_commits"
    /\ fn_out = NoFn
    /\ fn_out' = [f |-> "merge_commits", merged |-> MergeCommits(fn_in.batch, fn_in.index)]
    /\ UnchangedPipeline /\ UNCHANGED <<par, fn_in, disk>>

SpecMergeCommits == InitMergeCommits /\ [][ApplyMergeCommits]_vars

----------------------------------------------------------------------------
(* Evaluation requests on a long history: chunked evaluation *)

MaxIndexed == 32        \* commits of the author in the index
MaxChunkFailAt == 4     \* the latest oracle call of a request that may fail

\* the index after syncing n commits of Alice, newest first
LongHistory(n) == [i \in 1..n |-> [sha |-> n + 1 - i, author |-> "Alice"]]

ChunkedOracleScripts ==
    {[fail_at |-> 0, vec |-> v] : v \in OracleVectors}
    \cup {[fail_at |-> k, vec |-> Uniform(80)] : k \in 1..MaxChunkFailAt}

\* the cache entry written by an evaluation made when the index held the
\* oldest commit only
EvaluationOfOldest ==
    LET r == EvaluateAuthorIncremental(LongHistory(1), "alice", NoEval, TRUE, <<>>, TRUE, TRUE,
                                       [fail_at |-> 0, vec |-> Uniform(80)])
    IN  [r.evaluation EXCEPT !.keys = @ \cup {"plugin", "plugin_version"}]

\* n commits are synced (one, the chunking threshold and one more, two or
\* three chunks);
\* the author was never evaluated, or was evaluated when only the oldest
\* commit was there
InitChunked ==
    /\ \E n \in {1, ChunkThreshold, ChunkThreshold + 1, MaxIndexed - 1, MaxIndexed} :
           /\ remote = LongHistory(n)
           /\ commits_index = LongHistory(n)
           /\ commit_files = 1..n
           /\ sync_state = [last_commit_sha |-> n, last_commit_date |-> n,
                            total_commits_fetched |-> n,
                            sync_history |-> <<[commits_added |-> n, last_sha |-> n]>>]
    /\ eval_cache \in [CacheKeys -> {NoEval, EvaluationOfOldest}]
    /\ sync_result = NoSyncResult
    /\ eval_response = NoResponse
    /\ last_op = NoOp
    /\ par = NoPar
    /\ fn_in = NoFn
    /\ fn_out = NoFn
    /\ disk = NoDisk

EvaluateChunked ==
    \E author \in RequestAuthors, use_cache \in BOOLEAN, mode \in ChunkingModes,
       o \in ChunkedOracleScripts :
        EvaluateAuthorCapped(author, <<>>, use_cache, mode[1], mode[2], o, MaxIndexed)

SpecChunked == InitChunked /\ [][EvaluateChunked]_vars

----------------------------------------------------------------------------
(* One oracle call chain: _evaluate_with_llm and _parse_llm_response of the
   plugins zgc_ai_native_2026 and zgc_simple *)

MaxModels == 2          \* candidate models: self.model and the fallback models
MaxHits == 1            \* keywords of a dimension found by the heuristic

Plugins == {"zgc_ai_native_2026", "zgc_simple"}

\* requests.post raises, or the response has an error status (not resp.ok)
TransportFailures == {[kind |-> "timeout"], [kind |-> "http_500"], [kind |-> "http_401"]}

\* status 200, but resp.json() raises or choices[0].message.content is missing
MalformedEnvelopes == {[kind |-> "not_json"], [kind |-> "no_choices"]}

\* status 200 with a message content: no "{" in it, an object with a score
\* that int() rejects, or an object with the raw score `raw` per dimension
Contents ==
    {[kind |-> "no_object"], [kind |-> "bad_score"]}
    \cup {[kind |-> "scores", raw |-> v, reasoning |-> r] : v \in {-5, 70, 120}, r \in BOOLEAN}

ModelResponses == TransportFailures \cup MalformedEnvelopes \cup Contents

\* a parser that keeps the score as the model wrote it
NoClamp(v) == v

\* min(100, max(0, int(v)))
Clamp(v) == IF v < 0 THEN 0 ELSE IF v > 100 THEN 100 ELSE v

LLMRaised(tried) ==
    [raised |-> TRUE, kind |-> "none", scores |-> Uniform(0), reasoning |-> FALSE, tried |-> tried]

LLMResult(kind, scores, reasoning, tried) ==
    [raised |-> FALSE, kind |-> kind, scores |-> scores, reasoning |-> reasoning, tried |-> tried]

KeywordCount(d) == IF d = "leadership" THEN 7 ELSE 8

\* _fallback_evaluation: min(100, int(hits / len(keywords) * 100)) per dimension
FallbackEvaluation(hits, tried) ==
    LLMResult("heuristic",
              [d \in Dimensions |-> Min(100, IntDiv(hits * 100, KeywordCount(d)))], TRUE, tried)

\* _parse_llm_response; zgc_simple adds a reasoning text where none was parsed
ParseLLMResponse(plugin, content, tried) ==
    IF content.kind = "scores"
    THEN LLMResult("llm", Uniform(Clamp(content.raw)),
                   content.reasoning \/ plugin = "zgc_simple", tried)
    ELSE LLMResult("neutral", Uniform(NeutralScore), plugin = "zgc_simple", tried)

\* a loop that goes on to the next model whatever came back
CallFailedAlways(response) == TRUE

\* lines 479-488: `continue` on a status that is not ok and on any exception
\* of the request, of resp.json() or of the choices lookup
CallFailed(response) == response \notin Contents

\* a chain whose end always is the keyword heuristic
AfterAllModelsHeuristic(allow_fallback, hits, tried) == FallbackEvaluation(hits, tried)

\* lines 490-492: every candidate model failed
AfterAllModels(allow_fallback, hits, tried) ==
    IF allow_fallback THEN FallbackEvaluation(hits, tried) ELSE LLMRaised(tried)

RECURSIVE TryModels(_, _, _, _, _)
\* the loop over models_to_try from model number m on (lines 468-489)
TryModels(plugin, allow_fallback, responses, hits, m) ==
    IF m > Len(responses) THEN AfterAllModels(allow_fallback, hits, Len(responses))
    ELSE IF ~CallFailed(responses[m]) THEN ParseLLMResponse(plugin, responses[m], m)
    ELSE TryModels(plugin, allow_fallback, responses, hits, m + 1)

\* _evaluate_with_llm(context, username); responses[m]: what model m answers
EvaluateWithLLM(plugin, has_key, allow_fallback, responses, hits) ==
    IF ~has_key THEN AfterAllModels(allow_fallback, hits, 0)
    ELSE TryModels(plugin, allow_fallback, responses, hits, 1)

InitLLM ==
    /\ PipelineInit
    /\ par = NoPar
    /\ fn_in \in {[f |-> "llm", plugin |-> p, has_key |-> k, allow_fallback |-> a,
                    responses |-> r, hits |-> h] :
                     p \in Plugins, k \in BOOLEAN, a \in BOOLEAN,
                     r \in SeqsUpTo(ModelResponses, MaxModels) \ {<<>>}, h \in 0..MaxHits}
    /\ fn_out = NoFn
    /\ disk = NoDisk

ApplyLLM ==
    /\ fn_in.f = "llm"
    /\ fn_out = NoFn
    /\ fn_out' = [f |-> "llm",
                  result |-> EvaluateWithLLM(fn_in.plugin, fn_in.has_key, fn_in.allow_fallback,
                                             fn_in.responses, fn_in.hits)]
    /\ UnchangedPipeline /\ UNCHANGED <<par, fn_in, disk>>

SpecLLM == InitLLM /\ [][ApplyLLM]_vars

----------------------------------------------------------------------------
(* File writes and reads: save_sync_state / load_sync_state and the cache
   file write / read of the evaluate_author route *)

MaxWrites == 2          \* writes started per file

Absent == [kind |-> "absent"]

\* the complete JSON document of write number v
Complete(v) == [kind |-> "complete", version |-> v]

\* a file opened with mode 'w' for write number v whose document is not
\* (yet) fully written: empty or a prefix of the document
Partial(v) == [kind |-> "partial", version |-> v]

InitWrite ==
    /\ PipelineInit
    /\ par = NoPar
    /\ fn_in = NoFn
    /\ fn_out = NoFn
    /\ disk = [pc |-> "run", sync_file |-> Absent, sync_tmp |-> Absent, cache_file |-> Absent,
               sync_w |-> "idle", cache_w |-> "idle", sync_n |-> 0, cache_n |-> 0,
               seen |-> [file |-> "none", content |-> Absent]]

UnchangedButDisk == UnchangedPipeline /\ UNCHANGED <<par, fn_in, fn_out>>

\* save_sync_state line 78: open(temp_path, 'w')
SaveSyncOpen ==
    /\ disk.pc = "run" /\ disk.sync_w = "idle" /\ disk.sync_n < MaxWrites
    /\ disk' = [disk EXCEPT !.sync_n = @ + 1, !.sync_tmp = Partial(disk.sync_n + 1),
                            !.sync_w = "opened"]
    /\ UnchangedButDisk

\* lines 78-79: json.dump and the close of the temporary file
SaveSyncDump ==
    /\ disk.pc = "run" /\ disk.sync_w = "opened"
    /\ disk' = [disk EXCEPT !.sync_tmp = Complete(disk.sync_n), !.sync_w = "dumped"]
    /\ UnchangedButDisk

\* line 80: temp_path.rename(self.sync_state_path)
SaveSyncRename ==
    /\ disk.pc = "run" /\ disk.sync_w = "dumped"
    /\ disk' = [disk EXCEPT !.sync_file = disk.sync_tmp, !.sync_tmp = Absent,
                            !.sync_w = "idle"]
    /\ UnchangedButDisk

\* lines 82-85: IOError while writing, the temporary file is removed
SaveSyncIOError ==
    /\ disk.pc = "run" /\ disk.sync_w = "opened"
    /\ disk' = [disk EXCEPT !.sync_tmp = Absent, !.sync_w = "idle"]
    /\ UnchangedButDisk

\* routes/evaluation.py line 209: open(eval_path, 'w') truncates the cache file
SaveCacheOpen ==
    /\ disk.pc = "run" /\ disk.cache_w = "idle" /\ disk.cache_n < MaxWrites
    /\ disk' = [disk EXCEPT !.cache_n = @ + 1, !.cache_file = Partial(disk.cache_n + 1),
                            !.cache_w = "opened"]
    /\ UnchangedButDisk

\* line 210: json.dump and the close of the cache file
SaveCacheDump ==
    /\ disk.pc = "run" /\ disk.cache_w = "opened"
    /\ disk' = [disk EXCEPT !.cache_file = Complete(disk.cache_n), !.cache_w = "idle"]
    /\ UnchangedButDisk

\* the writing process dies in the middle of a write; the files stay as they are
CrashInWrite ==
    /\ disk.pc = "run"
    /\ \/ /\ disk.sync_w # "idle"
          /\ disk' = [disk EXCEPT !.sync_w = "idle"]
       \/ /\ disk.cache_w # "idle"
          /\ disk' = [disk EXCEPT !.cache_w = "idle"]
    /\ UnchangedButDisk

\* load_sync_state opens and reads sync_state.json
ReadSyncFile ==
    /\ disk.pc = "run"
    /\ disk' = [disk EXCEPT !.seen = [file |-> "sync_state", content |-> disk.sync_file]]
    /\ UnchangedButDisk

\* the route opens and reads the cache file (lines 167-169)
ReadCacheFile ==
    /\ disk.pc = "run"
    /\ disk' = [disk EXCEPT !.seen = [file |-> "cache", content |-> disk.cache_file]]
    /\ UnchangedButDisk

NextWrite ==
    \/ SaveSyncOpen \/ SaveSyncDump \/ SaveSyncRename \/ SaveSyncIOError
    \/ SaveCacheOpen \/ SaveCacheDump \/ CrashInWrite
    \/ ReadSyncFile \/ ReadCacheFile

SpecWrite == InitWrite /\ [][NextWrite]_vars

----------------------------------------------------------------------------
(* Cache file names: _evaluation_cache_path and the plugin selection of the
   evaluate_author route *)

\* author names in the URL of a request
PathAuthors == {"Alice", "alice", "bob"}

\* the plugin query parameter: empty, or the id of a discovered plugin
RequestedPlugins == {""} \cup Plugins

\* resolve_plugin_id: the requested plugin, else the default plugin
ResolvePluginId(requested, default_id) == IF requested # "" THEN requested ELSE default_id

\* get_evaluation_cache_path: <author>.json for the default plugin (and for
\* the ids "" and "builtin"), <author>__<plugin>.json otherwise
EvaluationCachePath(author, plugin_id, default_id) ==
    IF plugin_id = default_id \/ plugin_id \in {"", "builtin"}
    THEN [author |-> Lower(author), suffix |-> ""]
    ELSE [author |-> Lower(author), suffix |-> plugin_id]

CachePaths == {[author |-> Lower(a), suffix |-> x] : a \in PathAuthors, x \in RequestedPlugins}

NoFile == [plugin |-> "none", author |-> "none"]

InitCache ==
    /\ PipelineInit
    /\ par = NoPar
    /\ fn_in = NoFn
    /\ fn_out = NoFn
    /\ \E d \in Plugins :
           disk = [pc |-> "cache", default_id |-> d, files |-> [q \in CachePaths |-> NoFile],
                   request |-> [plugin_id |-> "none", author |-> "none", loaded |-> NoFile]]

\* the plugin marked default in the plugins directory changes
SetDefaultPlugin ==
    /\ disk.pc = "cache"
    /\ \E d \in Plugins \ {disk.default_id} : disk' = [disk EXCEPT !.default_id = d]
    /\ UnchangedButDisk

\* an evaluation request with use_cache: the previous evaluation is loaded
\* from the cache path and the result is saved to it (lines 160-171, 205-210)
CachedRequest ==
    /\ disk.pc = "cache"
    /\ \E author \in PathAuthors, requested \in RequestedPlugins :
           LET plugin_id == ResolvePluginId(requested, disk.default_id)
               path == EvaluationCachePath(author, plugin_id, disk.default_id)
           IN  disk' = [disk EXCEPT
                          !.request = [plugin_id |-> plugin_id, author |-> author,
                                       loaded |-> disk.files[path]],
                          !.files[path] = [plugin |-> plugin_id, author |-> Lower(author)]]
    /\ UnchangedButDisk

NextCache == SetDefaultPlugin \/ CachedRequest

SpecCache == InitCache /\ [][NextCache]_vars

----------------------------------------------------------------------------
(* Claims *)

\* a cache entry holding an evaluation with a boundary
IsComputed(e) == "last_commit_sha" \in e.keys

\* C1 (as stated): across evaluation requests and syncs the cached
\* total_commits_evaluated of an entry never decreases, and a Computed entry
\* stays Computed (nothing in the pipeline deletes a cache entry).
C1_CountNeverDecreases ==
    [][\A k \in CacheKeys :
          /\ eval_cache'[k].total_commits_evaluated >= eval_cache[k].total_commits_evaluated
          /\ (IsComputed(eval_cache[k]) => IsComputed(eval_cache'[k]))]_vars

\* C2 (as stated): the merged score of a dimension is
\* round((prevScore*prevCount + newScore*newCount) / (prevCount+newCount)).
C2_MergedIsRoundedWeightedMean ==
    fn_out.f = "merge_score" =>
        fn_out.merged = RoundHalfEven(fn_in.prev_val * fn_in.prev_count
                                        + fn_in.new_val * fn_in.new_count,
                                      fn_in.prev_count + fn_in.new_count)

\* C3 (as stated): when the detail fetch of at least one commit of the delta
\* failed, the sync state after sync_incremental equals the one before it.
C3_BoundaryOnlyAfterFullFetch ==
    (last_op.op = "sync" /\ Range(last_op.new) \ last_op.ok # {}) =>
        sync_state = last_op.before

\* the request of the last step reached evaluate_author_incremental with a
\* previous evaluation that carries a boundary, for an author with commits
\* (the author without commits is C10's case)
IncrementalRequest ==
    /\ last_op.op = "evaluate"
    /\ AuthorCommits(LoadCommitsFromLocal, last_op.author, last_op.aliases) # <<>>
    /\ last_op.previous.keys # {}
    /\ last_op.previous.last_commit_sha # NoSha

\* the commits matching the request's author filter that stand before the
\* boundary S in the newest-first commit list
AuthorCommitsBeforeBoundary ==
    AuthorCommits(PrefixBefore(LoadCommitsFromLocal, last_op.previous.last_commit_sha),
                  last_op.author, last_op.aliases)

\* C4 (as stated): with a previous evaluation of boundary S, the commits
\* handed to the evaluator are exactly the author's commits before S in the
\* commit list; when there is none, no oracle call is made and the previous
\* result is returned.
C4_OnlyCommitsBeforeBoundary ==
    IncrementalRequest =>
        /\ last_op.handed = Shas(AuthorCommitsBeforeBoundary)
        /\ AuthorCommitsBeforeBoundary = <<>> =>
              /\ last_op.calls = 0
              /\ eval_response.status = 200
              /\ eval_response.evaluation =
                     [last_op.previous EXCEPT !.keys = @ \cup {"plugin", "plugin_version"}]

\* C5 (as stated): a previous evaluation without last_commit_sha gives the
\* result of a first evaluation (same filter, same evaluator, same oracle
\* answers).
C5_LegacyDegeneratesToFirst ==
    (/\ last_op.op = "evaluate"
     /\ LoadCommitsFromLocal # <<>>
     /\ last_op.previous.keys # {}
     /\ last_op.previous.last_commit_sha = NoSha) =>
        \E mode \in ChunkingModes :
            LET first == EvaluateAuthorIncremental(LoadCommitsFromLocal, last_op.author, NoEval,
                                                   mode[1], last_op.aliases, TRUE, mode[2],
                                                   last_op.oracle)
            IN  /\ eval_response.status = first.status
                /\ first.status = 200 =>
                      eval_response.evaluation =
                          [first.evaluation EXCEPT !.keys = @ \cup {"plugin", "plugin_version"}]

\* the remote holds no commit newer than the stored boundary
NoNewerRemoteCommit ==
    \/ remote = <<>>
    \/ sync_state.last_commit_sha # NoSha /\ remote[1].sha = sync_state.last_commit_sha

\* C6: a sync_incremental that finds no commit newer than the stored
\* boundary returns commits_added = 0 and changes neither the sync state nor
\* the commits index (nor the commit files); hence so does any repetition.
C6_SyncWithoutNewCommitsIsNoOp ==
    [][(last_op'.op = "sync" /\ NoNewerRemoteCommit) =>
          /\ sync_result'.commits_added = 0
          /\ sync_state' = sync_state
          /\ commits_index' = commits_index
          /\ commit_files' = commit_files]_vars

C6_Witness ==
    /\ last_op.op = "sync"
    /\ last_op.list_ok
    /\ sync_state.last_commit_sha # NoSha
    /\ remote # <<>>
    /\ remote[1].sha = sync_state.last_commit_sha
    /\ last_op.before = sync_state
    /\ sync_result.status = "up_to_date"
    /\ sync_result.commits_added = 0

\* the batch commits whose sha is already in the index
Overlap(batch, index) == {i \in 1..Len(batch) : batch[i].sha \in Range(Shas(index))}

C8_PartitionReconstructs ==
    fn_out.f = "partition" => Concat(fn_out.chunks) = fn_in.commits

C8_Witness ==
    /\ fn_out.f = "partition"
    /\ Len(fn_out.chunks) >= 3
    /\ Len(fn_out.chunks[Len(fn_out.chunks)]) < fn_in.size
    /\ Concat(fn_out.chunks) = fn_in.commits

\* the chunk results in chunk order 1..n, as the calls answered
ResultsInChunkOrder ==
    [i \in 1..par.n |-> [chunk_idx |-> i, scores |-> par.script[i].scores]]

\* C9: whatever the completion order, the chunk results given to the
\* synthesis step are ordered by chunk index 1..N, and the mean fallback
\* (synthesis call failed) is the mean of the results in that order.
C9_MergeInputInChunkOrder ==
    par.pc = "done" =>
        /\ par.merge_input = ResultsInChunkOrder
        /\ ~par.script[par.n + 1].ok =>
              par.scores = [d \in Dimensions |->
                               IntDiv(SumScores(ResultsInChunkOrder, d), par.n)]

C9_Witness ==
    /\ par.pc = "done"
    /\ par.n >= 3
    /\ par.chunk_results # par.merge_input
    /\ par.chunk_results[1].chunk_idx = par.n
    /\ ~par.script[par.n + 1].ok
    /\ \E i, j \in 1..par.n : par.script[i].scores # par.script[j].scores

\* the request of the last step reached evaluate_author_incremental and no
\* commit matches its author filter
EmptyAuthorRequest ==
    /\ last_op.op \in {"evaluate", "call"}
    /\ last_op.op = "evaluate" => LoadCommitsFromLocal # <<>>
    /\ AuthorCommits(LoadCommitsFromLocal, last_op.author, last_op.aliases) = <<>>

\* C10: for an author without matching commits evaluate_author_incremental
\* returns (never raises) the empty result, six scores 0 and
\* total_commits_evaluated 0, without an oracle call, whatever the previous
\* evaluation and with or without an evaluator factory.
C10_EmptyAuthorGivesEmptyResult ==
    EmptyAuthorRequest =>
        /\ eval_response.status = 200
        /\ last_op.calls = 0
        /\ last_op.handed = <<>>
        /\ \A d \in Dimensions : eval_response.evaluation.scores[d] = 0
        /\ eval_response.evaluation.total_commits_evaluated = 0
        /\ eval_response.evaluation.new_commits_count = 0
        /\ eval_response.evaluation.username = last_op.author

C10_Witness ==
    /\ EmptyAuthorRequest
    /\ last_op.op = "call"
    /\ ~last_op.factory
    /\ IsComputed(last_op.previous)
    /\ LoadCommitsFromLocal # <<>>
    /\ eval_response.status = 200
    /\ eval_response.evaluation.total_commits_evaluated = 0

\* C11: an incremental evaluation that finds k >= 1 new author commits on
\* top of a previous result with count C returns new_commits_count = k,
\* total_commits_evaluated = C + k, incremental = true and last_commit_sha =
\* the sha of the newest commit matching the author filter.
C11_IncrementalCounters ==
    (IncrementalRequest /\ eval_response.status = 200 /\ last_op.handed # <<>>) =>
        LET k == Len(last_op.handed)
            e == eval_response.evaluation
        IN  /\ e.new_commits_count = k
            /\ e.total_commits_evaluated = last_op.previous.total_commits_evaluated + k
            /\ e.incremental
            /\ e.last_commit_sha =
                   AuthorCommits(LoadCommitsFromLocal, last_op.author, last_op.aliases)[1].sha

C11_Witness ==
    /\ IncrementalRequest
    /\ eval_response.status = 200
    /\ Len(last_op.handed) = 1
    /\ last_op.calls = 1
    /\ last_op.previous.total_commits_evaluated = 1
    /\ last_op.previous.last_commit_sha = 1
    /\ eval_response.evaluation.total_commits_evaluated = 2
    /\ eval_response.evaluation.last_commit_sha = 2

\* C12 (as stated): a sync whose list fetch and every detail fetch succeed
\* completes the index, also after earlier syncs with failed detail
\* fetches: every commit of the remote (which fits in one page) is then in
\* the commits index with its commit file.
C12_FullSyncCompletesIndex ==
    (/\ last_op.op = "sync"
     /\ last_op.list_ok
     /\ Range(last_op.new) \subseteq last_op.ok
     /\ Len(remote) <= PageLimit) =>
        \A i \in 1..Len(remote) :
            /\ remote[i].sha \in Range(Shas(commits_index))
            /\ remote[i].sha \in commit_files

\* the oracle call that failed in the request of the last step (0: none)
FailedCall ==
    IF last_op.op = "evaluate" /\ last_op.oracle.fail_at \in 1..last_op.calls
    THEN last_op.oracle.fail_at ELSE 0

\* the last call of the request was the synthesis call of a parallel
\* chunked evaluation (made after every chunk call returned)
SynthesisCallMade ==
    /\ last_op.op = "evaluate"
    /\ Len(last_op.handed) > ChunkThreshold
    /\ last_op.calls = Len(Partition(last_op.handed, ChunkModerate)) + 1

AllModelsFailed ==
    ~fn_in.has_key \/ \A m \in 1..Len(fn_in.responses) : fn_in.responses[m] \in TransportFailures

\* C14: when every candidate model has failed, _evaluate_with_llm raises
\* unless OSCANNER_ALLOW_FALLBACK is set (then it returns the keyword
\* heuristic); with the flag unset no call returns the keyword heuristic.
C14_HeuristicOnlyWithFlag ==
    fn_out.f = "llm" =>
        /\ ~fn_in.allow_fallback => fn_out.result.kind # "heuristic"
        /\ (AllModelsFailed /\ ~fn_in.allow_fallback) => fn_out.result.raised
        /\ (AllModelsFailed /\ fn_in.allow_fallback) =>
              ~fn_out.result.raised /\ fn_out.result.kind = "heuristic"

C14_Witness ==
    /\ fn_out.f = "llm"
    /\ fn_in.has_key
    /\ ~fn_in.allow_fallback
    /\ Len(fn_in.responses) = 2
    /\ fn_in.responses[1].kind = "timeout"
    /\ fn_in.responses[2].kind = "http_401"
    /\ fn_out.result.raised
    /\ fn_out.result.tried = 2

\* model m is the first whose message content reaches _parse_llm_response
FirstParsed(m) ==
    /\ fn_in.has_key
    /\ m \in 1..Len(fn_in.responses)
    /\ fn_in.responses[m] \in Contents
    /\ \A j \in 1..(m - 1) : fn_in.responses[j] \notin Contents

\* C15 (as stated): when a response is received but no score object can be
\* parsed from it, the call returns the neutral vector (50 in each of the
\* six dimensions) together with an explanatory rationale, in both plugins.
C15_ParseFailureGivesNeutralWithRationale ==
    fn_out.f = "llm" =>
        \A m \in 1..Len(fn_in.responses) :
            (FirstParsed(m) /\ fn_in.responses[m].kind \in {"no_object", "bad_score"}) =>
                /\ ~fn_out.result.raised
                /\ fn_out.result.scores = Uniform(NeutralScore)
                /\ fn_out.result.reasoning

\* model m is the first whose response arrives with a success status
FirstReceived(m) ==
    /\ fn_in.has_key
    /\ m \in 1..Len(fn_in.responses)
    /\ fn_in.responses[m] \notin TransportFailures
    /\ \A j \in 1..(m - 1) : fn_in.responses[j] \in TransportFailures

\* C16 (as stated): a response received with a success status, however
\* malformed its payload, ends the call chain with a result: the call does
\* not raise, no further model is tried and the result is the parsed score
\* vector or a local default.
C16_ReceivedResponseEndsChain ==
    fn_out.f = "llm" =>
        \A m \in 1..Len(fn_in.responses) :
            FirstReceived(m) =>
                /\ ~fn_out.result.raised
                /\ fn_out.result.tried = m
                /\ fn_out.result.kind \in {"llm", "neutral"}

\* C17 (as stated): whatever the interleaving of a reader with the writes
\* of the sync-state file and of the evaluation-cache file, and after a
\* crash in the middle of a write, the content read is a complete document
\* (the old or the new one) or the file is absent, never a partial file.
C17_ReaderNeverSeesPartialFile ==
    disk.pc = "run" => disk.seen.content.kind # "partial"

\* C18 (as stated): the previous evaluation a request loads was written by
\* a request with the same lower-cased author and the same plugin id, in
\* every sequence of requests and changes of the default plugin.
C18_CacheEntryOfSameStrategy ==
    (disk.pc = "cache" /\ disk.request.loaded # NoFile) =>
        /\ disk.request.loaded.plugin = disk.request.plugin_id
        /\ disk.request.loaded.author = Lower(disk.request.author)

\* ---------------------------------------------------------------------------
\* Damaged state files: sync_state.json as sync_incremental reads it and the
\* evaluation cache file as the evaluate_author route reads it.  The LLM and
\* the collector's list call succeed here, so that any failure is the file's.
\* ---------------------------------------------------------------------------

MaxCorruptRemote == 2
MaxCorruptCommits == 2
MaxCorruptTotal == 3

\* what a file can hold: no file, the program's own output, a cut-off JSON
\* text, a file the process may not open, bytes that are not UTF-8, and JSON
\* texts that parse to something other than the program's own output
CorruptKinds ==
    {"truncated", "unreadable", "not_utf8", "json_null", "json_empty_list",
     "json_list", "json_string", "json_empty_object", "json_object"}

FileKinds == {"absent", "valid"} \cup CorruptKinds

\* a loaded JSON value: its Python type, the keys of a dict, and the two
\* fields the callers use
Loaded(shape, keys, sha, total) ==
    [shape |-> shape, keys |-> keys, sha |-> sha, total |-> total]

StateKeys ==
    {"last_synced_at", "last_commit_sha", "last_commit_date",
     "total_commits_fetched", "sync_history"}

ZeroState == Loaded("dict", StateKeys, 0, 0)

\* json.load of a file of the given kind that did not raise
ParsedJson(kind, keys, sha, total) ==
    CASE kind = "valid" -> Loaded("dict", keys, sha, total)
      [] kind = "json_null" -> Loaded("null", {}, 0, 0)
      [] kind \in {"json_empty_list", "json_list"} -> Loaded("list", {}, 0, 0)
      [] kind = "json_string" -> Loaded("string", {}, 0, 0)
      [] kind = "json_empty_object" -> Loaded("dict", {}, 0, 0)
      [] kind = "json_object" -> Loaded("dict", {"other"}, 0, 0)

\* bool() of a loaded value
Truthy(kind) == kind \in {"valid", "json_list", "json_string", "json_object"}

\* SyncManager.load_sync_state: the except clause names JSONDecodeError and
\* IOError only, and the parsed value is returned as it is
LoadSyncState(kind, sha, total) ==
    CASE kind = "absent" -> ZeroState
      [] kind \in {"truncated", "unreadable"} -> ZeroState
      [] kind = "not_utf8" -> Loaded("raised", {}, 0, 0)
      [] OTHER -> ParsedJson(kind, StateKeys, sha, total)

SyncRaised(error, kind, sha, total) ==
    [raised |-> TRUE, error |-> error, outcome |-> "none", added |-> 0,
     file |-> kind, sha |-> sha, total |-> total]

SyncReturned(outcome, added, kind, sha, total) ==
    [raised |-> FALSE, error |-> "none", outcome |-> outcome, added |-> added,
     file |-> kind, sha |-> sha, total |-> total]

\* get_new_commits on a remote list r, r-1, .., 1: everything on a first
\* sync, else the commits in front of the boundary
NewSince(boundary, r) ==
    IF boundary = 0 \/ boundary > r THEN r ELSE r - boundary

\* sync_incremental on a state file of the given kind; r commits on the
\* remote, ok says whether their details could be fetched
SyncIncrementalOnFile(kind, sha, total, r, ok) ==
    LET l == LoadSyncState(kind, sha, total)
        new == NewSince(l.sha, r)
    IN  IF l.shape = "raised" THEN SyncRaised("UnicodeDecodeError", kind, sha, total)
        ELSE IF l.shape # "dict" THEN SyncRaised("AttributeError", kind, sha, total)
        ELSE IF "total_commits_fetched" \notin l.keys
             THEN SyncRaised("KeyError", kind, sha, total)
        ELSE IF new = 0 THEN SyncReturned("up_to_date", 0, kind, sha, total)
        ELSE IF ~ok THEN SyncReturned("error", 0, kind, sha, total)
        ELSE SyncReturned("synced", new, "valid", r, l.total + new)

EvaluationKeys == {"username", "total_commits_evaluated", "last_commit_sha", "scores"}

EvalOutcome(outcome, status, kind, sha, total) ==
    [raised |-> status # 200, error |-> IF status = 200 THEN "none" ELSE "http_500",
     outcome |-> outcome, added |-> 0, file |-> kind, sha |-> sha, total |-> total]

\* the cache load of the route: any exception of open or json.load leaves
\* previous_evaluation None
LoadPreviousEvaluation(kind, sha, total, use_cache) ==
    IF ~use_cache \/ kind \in {"absent", "truncated", "unreadable", "not_utf8"}
    THEN "absent"
    ELSE kind

\* the route from the cache load to the save, for an author with a commits
\* (a, a-1, .., 1, newest first) in the local data
EvaluateAuthorOnFile(kind, sha, total, a, use_cache) ==
    LET k == LoadPreviousEvaluation(kind, sha, total, use_cache)
        prev == IF k = "absent" THEN Loaded("null", {}, 0, 0)
                ELSE ParsedJson(k, EvaluationKeys, sha, total)
        new == IF prev.sha > a THEN a ELSE a - prev.sha
        saved(outcome, s, t) ==
            IF use_cache THEN EvalOutcome(outcome, 200, "valid", s, t)
            ELSE EvalOutcome(outcome, 200, kind, sha, total)
    IN  IF a = 0 THEN saved("empty", 0, 0)
        ELSE IF ~Truthy(k) THEN saved("first", a, a)
        ELSE IF prev.shape # "dict" THEN EvalOutcome("none", 500, kind, sha, total)
        ELSE IF prev.sha = 0 THEN EvalOutcome("none", 500, kind, sha, total)
        ELSE IF new = 0 THEN saved("unchanged", prev.sha, prev.total)
        ELSE saved("incremental", a, prev.total + new)

NoOutcome == SyncReturned("none", 0, "absent", 0, 0)

NoFileOp == [op |-> "none", kind |-> "absent", n |-> 0, flag |-> FALSE, out |-> NoOutcome]

NoStateFile == [kind |-> "absent", sha |-> 0, total |-> 0]

InitCorrupt ==
    /\ PipelineInit
    /\ par = NoPar
    /\ fn_in = NoFn
    /\ fn_out = NoFn
    /\ disk = [pc |-> "corrupt", sync_file |-> NoStateFile,
               cache_file |-> NoStateFile, last |-> NoFileOp]

\* sync_state.json is damaged or removed behind the program's back
DamageSyncFile ==
    /\ disk.pc = "corrupt"
    /\ \E kind \in CorruptKinds \cup {"absent"} :
           disk' = [disk EXCEPT !.sync_file = [NoStateFile EXCEPT !.kind = kind],
                                !.last = NoFileOp]
    /\ UnchangedButDisk

\* the evaluation cache file is damaged or removed
DamageCacheFile ==
    /\ disk.pc = "corrupt"
    /\ \E kind \in CorruptKinds \cup {"absent"} :
           disk' = [disk EXCEPT !.cache_file = [NoStateFile EXCEPT !.kind = kind],
                                !.last = NoFileOp]
    /\ UnchangedButDisk

SyncOnDisk ==
    /\ disk.pc = "corrupt"
    /\ \E r \in 0..MaxCorruptRemote, ok \in BOOLEAN :
           LET f == disk.sync_file
               out == SyncIncrementalOnFile(f.kind, f.sha, f.total, r, ok)
           IN  /\ out.total <= MaxCorruptTotal
               /\ disk' = [disk EXCEPT
                              !.sync_file = [kind |-> out.file, sha |-> out.sha,
                                             total |-> out.total],
                              !.last = [op |-> "sync", kind |-> f.kind, n |-> r,
                                        flag |-> ok, out |-> out]]
    /\ UnchangedButDisk

EvaluateOnDisk ==
    /\ disk.pc = "corrupt"
    /\ \E a \in 0..MaxCorruptCommits, use_cache \in BOOLEAN :
           LET f == disk.cache_file
               out == EvaluateAuthorOnFile(f.kind, f.sha, f.total, a, use_cache)
           IN  /\ out.total <= MaxCorruptTotal
               /\ disk' = [disk EXCEPT
                              !.cache_file = [kind |-> out.file, sha |-> out.sha,
                                              total |-> out.total],
                              !.last = [op |-> "evaluate", kind |-> f.kind, n |-> a,
                                        flag |-> use_cache, out |-> out]]
    /\ UnchangedButDisk

NextCorrupt == DamageSyncFile \/ DamageCacheFile \/ SyncOnDisk \/ EvaluateOnDisk

SpecCorrupt == InitCorrupt /\ [][NextCorrupt]_vars

\* what an operation returned and what it saved, whatever file it left alone
ResultAndSaved(out) == [out EXCEPT !.file = IF out.file = "valid" THEN "valid" ELSE "kept"]

\* what the last operation would have returned had the file been absent
AsIfAbsent ==
    IF disk.last.op = "sync"
    THEN SyncIncrementalOnFile("absent", 0, 0, disk.last.n, disk.last.flag)
    ELSE EvaluateAuthorOnFile("absent", 0, 0, disk.last.n, disk.last.flag)

\* C19: a sync or an evaluation that finds an unreadable or invalid
\* sync-state or cache file does not raise and does what it would have done
\* with the file absent (a full re-sync, a first evaluation).
C19_CorruptFileTreatedAsAbsent ==
    (disk.pc = "corrupt" /\ disk.last.op # "none" /\ disk.last.kind \in CorruptKinds) =>
        /\ ~disk.last.out.raised
        /\ ResultAndSaved(disk.last.out) = ResultAndSaved(AsIfAbsent)

\* the fields of the evaluation result that every caller may rely on
ContractKeys ==
    {"username", "total_commits_evaluated", "new_commits_count", "last_commit_sha",
     "scores", "commits_summary", "incremental", "chunked", "chunks_processed"}

\* C20: every result that evaluate_author_incremental returns (first
\* evaluation, incremental merge, no new commits, author without commits,
\* chunked or not) carries all fields of the result contract.
C20_ResultCarriesContractFields ==
    eval_response.status = 200 => ContractKeys \subseteq eval_response.evaluation.keys

----------------------------------------------------------------------------
(* Score vectors from the oracle's answer to the cached result: what
   _evaluate_with_llm returns, folded by the chunk strategies and merged
   cycle after cycle by evaluate_author_incremental *)

MaxScoreChunks == 2     \* chunks of one chunked evaluation
MaxScoreCycles == 2     \* incremental cycles after the first evaluation
MaxNewCommits == 2      \* commits evaluated by one request

\* every vector _evaluate_with_llm can return
LLMVectors ==
    LET results == {EvaluateWithLLM(p, k, a, r, h) :
                       p \in Plugins, k \in BOOLEAN, a \in BOOLEAN,
                       r \in SeqsUpTo(ModelResponses, MaxModels) \ {<<>>}, h \in 0..MaxHits}
    IN  {r.scores : r \in {x \in results : ~x.raised}}

AsChunkResults(vs) == [i \in 1..Len(vs) |-> [chunk_idx |-> i, scores |-> vs[i]]]

RECURSIVE FoldMergeEvaluations(_, _)
\* the accumulated vector of _evaluate_chunks_sequential after the chunk
\* answers vs, starting from acc
FoldMergeEvaluations(acc, vs) ==
    IF vs = <<>> THEN acc
    ELSE FoldMergeEvaluations(MergeEvaluations(acc, Head(vs)), Tail(vs))

ChunkAnswers == {vs \in SeqsUpTo(LLMVectors, MaxScoreChunks) : Len(vs) >= 2}

\* what evaluate_engineer can put into "scores", with the way it was made
ProducedScores ==
    {[producer |-> "single", scores |-> v] : v \in LLMVectors}
    \cup {[producer |-> "sequential", scores |-> FoldMergeEvaluations(Head(vs), Tail(vs))] :
            vs \in ChunkAnswers}
    \cup {[producer |-> "synthesis", scores |-> v] : v \in LLMVectors}
    \cup {[producer |-> "mean", scores |-> SimpleAverageMerge(AsChunkResults(vs))] :
            vs \in ChunkAnswers}

NoScores == [kind |-> "none", scores |-> Uniform(0), total |-> 0, cycles |-> 0]

InitScores ==
    /\ PipelineInit
    /\ par = NoPar
    /\ fn_in = NoFn
    /\ fn_out = NoFn
    /\ disk = [pc |-> "scores", cached |-> NoScores,
               result |-> [producer |-> "none", scores |-> Uniform(0)]]

\* a request of an author without commits: get_empty_evaluation, saved
ScoreEmpty ==
    /\ disk.pc = "scores"
    /\ disk.cached.kind = "none"
    /\ disk' = [disk EXCEPT
                   !.cached = [NoScores EXCEPT !.kind = "empty"],
                   !.result = [producer |-> "empty", scores |-> GetEmptyEvaluation("alice").scores]]
    /\ UnchangedButDisk

\* a first evaluation of n commits: no cache entry yet, the result is saved
ScoreFirst ==
    /\ disk.pc = "scores"
    /\ disk.cached.kind = "none"
    /\ \E e \in ProducedScores, n \in 1..MaxNewCommits :
           disk' = [disk EXCEPT
                       !.cached = [kind |-> "evaluation", scores |-> e.scores,
                                   total |-> n, cycles |-> 0],
                       !.result = e]
    /\ UnchangedButDisk

\* an incremental cycle: n new commits, weighted merge with the cache entry
ScoreIncrement ==
    /\ disk.pc = "scores"
    /\ disk.cached.kind = "evaluation"
    /\ disk.cached.cycles < MaxScoreCycles
    /\ \E e \in ProducedScores, n \in 1..MaxNewCommits :
           LET merged == [d \in Dimensions |->
                             MergeScore(disk.cached.scores[d], disk.cached.total, e.scores[d], n)]
           IN  disk' = [disk EXCEPT
                           !.cached = [kind |-> "evaluation", scores |-> merged,
                                       total |-> disk.cached.total + n,
                                       cycles |-> disk.cached.cycles + 1],
                           !.result = [producer |-> "incremental_" \o e.producer,
                                       scores |-> merged]]
    /\ UnchangedButDisk

NextScores == ScoreEmpty \/ ScoreFirst \/ ScoreIncrement

SpecScores == InitScores /\ [][NextScores]_vars

\* C21: in every evaluation result, however it was produced (single call,
\* sequential accumulation, synthesis, mean fallback, keyword heuristic,
\* weighted merge over several cycles, empty result), each of the six
\* dimension scores is an integer between 0 and 100.
C21_ScoresWithinRange ==
    disk.pc = "scores" =>
        /\ \A d \in Dimensions : disk.result.scores[d] \in 0..100
        /\ \A d \in Dimensions : disk.cached.scores[d] \in 0..100

\* a second incremental cycle merged a heuristic or mean-fallback vector
\* into a cache entry
C21_Witness ==
    /\ disk.pc = "scores"
    /\ disk.cached.cycles = 2
    /\ disk.result.producer = "incremental_mean"
    /\ \E d \in Dimensions : disk.result.scores[d] \notin {0, NeutralScore, 100}

----------------------------------------------------------------------------
(* commits_summary of the cached result over incremental cycles
   (evaluation_service.py lines 264-273) *)

MaxSummaryCycles == 3   \* incremental cycles after the first evaluation
MaxLanguages == 10      \* [:10] of line 272 and of _summarize_commits

\* file extensions, numbered
Extensions == 1..(MaxLanguages + 1)

\* language sets of the commits of one request (at most MaxLanguages each)
NewLanguages == {{}, {1}, 1..5, 6..MaxLanguages, {MaxLanguages + 1}}

\* _summarize_commits of the commits of one request
NewSummaries ==
    {[total_additions |-> a, total_deletions |-> d, files_changed |-> f, languages |-> l] :
        a \in {0, 2}, d \in {1}, f \in {1, 3}, l \in NewLanguages}

\* list(set(prev + new))[:10]: the first ten of a set in iteration order,
\* which is any ten of its elements
FirstTen(s) ==
    IF Cardinality(s) <= MaxLanguages THEN {s}
    ELSE {t \in SUBSET s : Cardinality(t) = MaxLanguages}

\* lines 268-273: the summaries a merge may produce
MergedSummaries(prev, new) ==
    {[total_additions |-> prev.total_additions + new.total_additions,
      total_deletions |-> prev.total_deletions + new.total_deletions,
      files_changed |-> prev.files_changed + new.files_changed,
      languages |-> l] : l \in FirstTen(prev.languages \cup new.languages)}

NoSummary == [total_additions |-> 0, total_deletions |-> 0, files_changed |-> 0, languages |-> {}]

InitSummary ==
    /\ PipelineInit
    /\ par = NoPar
    /\ fn_in = NoFn
    /\ fn_out = NoFn
    /\ disk = [pc |-> "summary", cycles |-> 0, cached |-> NoSummary,
               op |-> "none", prev |-> NoSummary, new |-> NoSummary]

\* first evaluation: the plugin's summary is the result's summary
SummaryFirst ==
    /\ disk.pc = "summary"
    /\ disk.op = "none"
    /\ \E s \in NewSummaries :
           disk' = [disk EXCEPT !.cached = s, !.op = "first", !.new = s]
    /\ UnchangedButDisk

\* an incremental evaluation with new commits: the merged summary is saved
SummaryIncrement ==
    /\ disk.pc = "summary"
    /\ disk.op # "none"
    /\ disk.cycles < MaxSummaryCycles
    /\ \E s \in NewSummaries :
       \E m \in MergedSummaries(disk.cached, s) :
           disk' = [disk EXCEPT !.cached = m, !.op = "merge", !.prev = disk.cached,
                                !.new = s, !.cycles = @ + 1]
    /\ UnchangedButDisk

NextSummary == SummaryFirst \/ SummaryIncrement

SpecSummary == InitSummary /\ [][NextSummary]_vars

\* C22: after an incremental merge the additions, deletions and files
\* changed are the sums of the previous and the new values, and the
\* languages are the union of the previous and the new languages.
C22_SummaryIsSumAndUnion ==
    (disk.pc = "summary" /\ disk.op = "merge") =>
        /\ disk.cached.total_additions = disk.prev.total_additions + disk.new.total_additions
        /\ disk.cached.total_deletions = disk.prev.total_deletions + disk.new.total_deletions
        /\ disk.cached.files_changed = disk.prev.files_changed + disk.new.files_changed
        /\ disk.cached.languages = disk.prev.languages \cup disk.new.languages

----------------------------------------------------------------------------
(* First evaluations of histories around the max_commits ceiling *)

MaxFirstCommits == 152  \* commits of the author in the index

\* n commits of Alice, newest first, under `others` newer commits of bob
MixedHistory(n, others) ==
    [i \in 1..(n + others) |->
        [sha |-> n + others + 1 - i, author |-> IF i <= others THEN "bob" ELSE "Alice"]]

InitFirst ==
    /\ \E n \in {1, ChunkThreshold + 1, MaxCommits, MaxCommits + 1, MaxFirstCommits},
          others \in 0..1 :
           /\ remote = MixedHistory(n, others)
           /\ commits_index = MixedHistory(n, others)
           /\ commit_files = 1..(n + others)
           /\ sync_state = [last_commit_sha |-> n + others, last_commit_date |-> n + others,
                            total_commits_fetched |-> n + others,
                            sync_history |-> <<[commits_added |-> n + others,
                                                last_sha |-> n + others]>>]
    /\ eval_cache = [k \in CacheKeys |-> NoEval]
    /\ sync_result = NoSyncResult
    /\ eval_response = NoResponse
    /\ last_op = NoOp
    /\ par = NoPar
    /\ fn_in = NoFn
    /\ fn_out = NoFn
    /\ disk = NoDisk

EvaluateFirst ==
    \E author \in RequestAuthors, use_cache \in BOOLEAN, mode \in ChunkingModes,
       o \in OracleScripts :
        EvaluateAuthorCapped(author, <<>>, use_cache, mode[1], mode[2], o, MaxFirstCommits)

SpecFirst == InitFirst /\ [][EvaluateFirst]_vars

\* the commits of the request's author in the local data, newest first
CommitsOfRequestAuthor == AuthorCommits(LoadCommitsFromLocal, last_op.author, <<>>)

\* a request without previous evaluation returned a result
FirstEvaluationDone ==
    /\ last_op.op = "evaluate"
    /\ last_op.previous = NoEval
    /\ eval_response.status = 200
    /\ CommitsOfRequestAuthor # <<>>

\* C23: without a previous evaluation the result of an author with n commits
\* has incremental = false, total_commits_evaluated = new_commits_count =
\* min(n, 150), last_commit_sha of the author's newest commit, and the
\* evaluator scores at most the 150 newest of the commits (one call, or one
\* chunk per 15 of them).
C23_FirstEvaluationCapped ==
    FirstEvaluationDone =>
        LET n == Len(CommitsOfRequestAuthor)
            e == eval_response.evaluation
            analyzed == Min(n, MaxCommits)
        IN  /\ e.incremental = FALSE
            /\ e.total_commits_evaluated = analyzed
            /\ e.new_commits_count = analyzed
            /\ e.last_commit_sha = CommitsOfRequestAuthor[1].sha
            /\ \A i \in 1..n : CommitsOfRequestAuthor[i].sha <= e.last_commit_sha
            /\ e.chunked => e.chunks_processed = (analyzed + ChunkModerate - 1) \div ChunkModerate
            /\ ~e.chunked => last_op.calls = 1 /\ e.chunks_processed = 0

\* a first evaluation of more than 150 commits, chunked, under a newer
\* commit of another author
C23_Witness ==
    /\ FirstEvaluationDone
    /\ Len(CommitsOfRequestAuthor) > MaxCommits
    /\ eval_response.evaluation.chunked
    /\ commits_index[1].author = "bob"

\* the commits an incremental request must find new: those of the author in
\* front of the boundary of the cache entry it loaded
NewSinceCacheEntry(op) ==
    Shas(PrefixBefore(AuthorCommits(LoadCommitsFromLocal, op.author, op.aliases),
                      op.previous.last_commit_sha))

\* C24: the evaluation boundary and the sync boundary are independent: a
\* sync leaves every evaluation cache entry as it is, an evaluation leaves
\* the sync state and the index as they are and finds its new commits from
\* the boundary of its own cache entry, and a sync is possible in every
\* state, whether or not an evaluation ever ran.
C24_BoundariesIndependent ==
    /\ [](ENABLED Sync)
    /\ [][/\ last_op'.op = "sync" => eval_cache' = eval_cache
          /\ last_op'.op \in {"evaluate", "call"} =>
                 /\ sync_state' = sync_state
                 /\ commits_index' = commits_index
                 /\ commit_files' = commit_files
          /\ (/\ last_op'.op = "evaluate"
              /\ last_op'.previous # NoEval
              /\ last_op'.previous.last_commit_sha # NoSha) =>
                 last_op'.handed = NewSinceCacheEntry(last_op')]_vars

\* an incremental evaluation found new commits while the sync boundary was
\* ahead of the boundary of the cache entry
C24_Witness ==
    /\ last_op.op = "evaluate"
    /\ last_op.previous # NoEval
    /\ last_op.previous.last_commit_sha # NoSha
    /\ last_op.previous.last_commit_sha # sync_state.last_commit_sha
    /\ last_op.handed # <<>>
    /\ eval_response.status = 200

----------------------------------------------------------------------------
(* The merge of parallel chunk results with their rationales
   (_merge_chunk_results_with_llm, _simple_average_merge) *)

MaxMeanChunks == 3      \* chunk results given to the merge

\* score vectors of single chunks whose means are not all whole numbers
ChunkVectors == {Uniform(80), Uniform(81), MixedVector}

\* the rationale of a chunk result: the text the model wrote for chunk k,
\* named by k, or no text (key missing or empty string)
NoText == 0

\* chunk results in chunk order; has[k] says whether result k has a rationale
ChunkResultsWith(vs, has) ==
    [k \in 1..Len(vs) |->
        [chunk_idx |-> k, scores |-> vs[k], reasoning |-> IF has[k] THEN k ELSE NoText]]

\* line 358: the rationales that are present, in list order
Reasonings(chunk_results) ==
    LET with == SelectSeq(chunk_results, LAMBDA r : r.reasoning # NoText)
    IN  [i \in 1..Len(with) |-> with[i].reasoning]

\* lines 359-362: "**Chunk {i+1}:**\n{r}" for i, r in enumerate(reasonings),
\* as the sequence of (label, text) parts; <<>> stands for the fixed text
\* "Multiple chunks evaluated."
SimpleAverageReasoning(chunk_results) ==
    LET reasonings == Reasonings(chunk_results)
    IN  [i \in 1..Len(reasonings) |-> [label |-> i, text |-> reasonings[i]]]

\* what the synthesis call of the merge does: it fails, or answers a vector
SynthesisAnswers == {[ok |-> FALSE, scores |-> Uniform(0)], [ok |-> TRUE, scores |-> Uniform(70)]}

InitMean ==
    /\ PipelineInit
    /\ par = NoPar
    /\ \E n \in 2..MaxMeanChunks :
       \E vs \in [1..n -> ChunkVectors], has \in [1..n -> BOOLEAN], s \in SynthesisAnswers :
           fn_in = [f |-> "mean", chunk_results |-> ChunkResultsWith(vs, has), synthesis |-> s]
    /\ fn_out = NoFn
    /\ disk = NoDisk

ApplyMean ==
    /\ fn_in.f = "mean"
    /\ fn_out = NoFn
    /\ fn_out' = [f |-> "mean",
                  scores |-> MergeChunkResultsWithLLM(fn_in.chunk_results, fn_in.synthesis),
                  reasoning |-> IF fn_in.synthesis.ok THEN <<>>
                                ELSE SimpleAverageReasoning(fn_in.chunk_results)]
    /\ UnchangedPipeline /\ UNCHANGED <<par, fn_in, disk>>

SpecMean == InitMean /\ [][ApplyMean]_vars

\* the chunk results that have a rationale, as (label, text) parts labelled
\* with their own chunk index
LabelledByChunk(chunk_results) ==
    LET with == SelectSeq(chunk_results, LAMBDA r : r.reasoning # NoText)
    IN  [i \in 1..Len(with) |-> [label |-> with[i].chunk_idx, text |-> with[i].reasoning]]

\* C26 (as stated): when the synthesis call fails, the merged vector is per
\* dimension the mean (its integer part) of that dimension over all N chunk
\* results, and the merged rationale is the chunk rationales in chunk order,
\* each labelled with the index of the chunk it came from.
C26_MeanFallbackLabelsByChunk ==
    (fn_out.f = "mean" /\ ~fn_in.synthesis.ok) =>
        LET n == Len(fn_in.chunk_results)
        IN  /\ \A d \in Dimensions :
                   /\ n * fn_out.scores[d] <= SumScores(fn_in.chunk_results, d)
                   /\ SumScores(fn_in.chunk_results, d) < n * (fn_out.scores[d] + 1)
            /\ fn_out.reasoning = LabelledByChunk(fn_in.chunk_results)

----------------------------------------------------------------------------
(* _evaluate_chunks_sequential, one loop iteration per step *)

MaxSeqChunks == 3       \* chunks of one sequential evaluation

\* score vector and rationale accumulated so far; the rationale is the
\* sequence of the chunk texts it is made of, newest first
NoAccumulated == [scores |-> Uniform(0), reasoning |-> <<>>]

\* _merge_evaluations, the rationale: zgc_simple joins the new and the
\* previous text (line 465), zgc_ai_native_2026 keeps the new text and falls
\* back to the previous one when the new one is empty (lines 592-594)
MergeReasoning(plugin, prev, new) ==
    IF plugin = "zgc_simple" THEN new \o prev
    ELSE IF new # <<>> THEN new ELSE prev

\* what the model answers for one chunk: a vector, with or without rationale
SeqAnswers == {[scores |-> v, has_reasoning |-> h] : v \in ChunkVectors, h \in BOOLEAN}

InitSeq ==
    /\ PipelineInit
    /\ par = NoPar
    /\ fn_in = NoFn
    /\ fn_out = NoFn
    /\ \E p \in Plugins, n \in 2..MaxSeqChunks :
           disk = [pc |-> "seq", plugin |-> p, chunks |-> n, idx |-> 0,
                   accumulated |-> NoAccumulated, before |-> NoAccumulated,
                   prompt_previous |-> NoAccumulated, answer |-> NoAccumulated,
                   calls |-> <<>>]

\* lines 198-213: the iteration for chunk idx + 1: build the context with
\* previous_evaluation = accumulated, call the model, merge
SeqChunk ==
    /\ disk.pc = "seq"
    /\ disk.idx < disk.chunks
    /\ \E a \in SeqAnswers :
           LET idx == disk.idx + 1
               chunk_scores == [scores |-> a.scores,
                                reasoning |-> IF a.has_reasoning THEN <<idx>> ELSE <<>>]
           IN  disk' = [disk EXCEPT
                          !.idx = idx,
                          !.calls = Append(@, idx),
                          !.before = disk.accumulated,
                          !.prompt_previous = IF disk.idx = 0 THEN NoAccumulated
                                              ELSE disk.accumulated,
                          !.answer = chunk_scores,
                          !.accumulated =
                              IF disk.idx = 0 THEN chunk_scores
                              ELSE [scores |-> MergeEvaluations(disk.accumulated.scores,
                                                                 chunk_scores.scores),
                                    reasoning |-> MergeReasoning(disk.plugin,
                                                                 disk.accumulated.reasoning,
                                                                 chunk_scores.reasoning)]]
    /\ UnchangedButDisk

SpecSeq == InitSeq /\ [][SeqChunk]_vars

\* C27 (as stated): the chunks are evaluated one call at a time in order
\* 1..N; the prompt for chunk k > 1 carries the vector accumulated over the
\* chunks before it; after chunk k > 1 the accumulated vector is per
\* dimension the rounded average of the previous accumulated value and the
\* value returned for chunk k, and the accumulated rationale is the
\* rationale of chunk k joined with the previous rationale.
C27_SequentialAccumulation ==
    (disk.pc = "seq" /\ disk.idx >= 1) =>
        /\ disk.calls = [k \in 1..disk.idx |-> k]
        /\ disk.idx >= 2 =>
              /\ disk.prompt_previous = disk.before
              /\ \A d \in Dimensions :
                     disk.accumulated.scores[d]
                         = RoundHalfEven(disk.before.scores[d] + disk.answer.scores[d], 2)
              /\ disk.accumulated.reasoning = disk.answer.reasoning \o disk.before.reasoning

----------------------------------------------------------------------------
(* get_new_commits on every newest-first page and every stored boundary *)

MaxPageSha == 4         \* shas 1..MaxPageSha on the remote

\* newest-first pages: strictly descending shas
DescendingPages ==
    {q \in SeqsUpTo(1..MaxPageSha, MaxPageSha) :
        \A i, j \in 1..Len(q) : i < j => q[i] > q[j]}

InitNewCommits ==
    /\ \E q \in DescendingPages, b \in 0..MaxPageSha, since \in {NoDate, 1} :
           /\ remote = AsCommits(q)
           /\ sync_state = [DefaultSyncState EXCEPT !.last_commit_sha = b,
                                                    !.last_commit_date = since]
    /\ commits_index = <<>>
    /\ commit_files = {}
    /\ sync_result = NoSyncResult
    /\ eval_cache = [k \in CacheKeys |-> NoEval]
    /\ eval_response = NoResponse
    /\ last_op = NoOp
    /\ par = NoPar
    /\ fn_in \in {[f |-> "get_new_commits", list_ok |-> ok] : ok \in BOOLEAN}
    /\ fn_out = NoFn
    /\ disk = NoDisk

ApplyGetNewCommits ==
    /\ fn_in.f = "get_new_commits"
    /\ fn_out = NoFn
    /\ fn_out' = [f |-> "get_new_commits", new |-> GetNewCommits(sync_state, fn_in.list_ok)]
    /\ UnchangedPipeline /\ UNCHANGED <<par, fn_in, disk>>

SpecNewCommits == InitNewCommits /\ [][ApplyGetNewCommits]_vars

\* the positions of the page whose commit carries the stored boundary sha
BoundaryHits(page) == {k \in 1..Len(page) : page[k].sha = sync_state.last_commit_sha}

\* C28: for a newest-first page, get_new_commits returns exactly the commits
\* in front of the first commit whose sha is the stored last_commit_sha, in
\* page order, and the whole page when no boundary is stored.
C28_NewCommitsArePrefixBeforeBoundary ==
    (fn_out.f = "get_new_commits" /\ fn_in.list_ok) =>
        LET page == FetchCommitsList(sync_state.last_commit_date)
            hits == BoundaryHits(page)
            first == CHOOSE k \in hits : \A j \in hits : k <= j
        IN  /\ sync_state.last_commit_sha = NoSha => fn_out.new = page
            /\ (sync_state.last_commit_sha # NoSha /\ hits = {}) => fn_out.new = page
            /\ (sync_state.last_commit_sha # NoSha /\ hits # {}) =>
                   fn_out.new = SubSeq(page, 1, first - 1)

\* the boundary is in the middle of the page: newer commits are returned,
\* the boundary commit and the older ones are not
C28_Witness ==
    /\ fn_out.f = "get_new_commits"
    /\ fn_in.list_ok
    /\ Len(remote) >= 3
    /\ remote[2].sha = sync_state.last_commit_sha
    /\ fn_out.new = <<remote[1]>>

----------------------------------------------------------------------------
(* The file writes of one sync_incremental call, step by step: merge_commits
   writes commits_index.json, then save_sync_state writes sync_state.json *)

MaxIndexWrites == 2     \* sync_incremental calls that reach merge_commits

InitIndexWrite ==
    /\ PipelineInit
    /\ par = NoPar
    /\ fn_in = NoFn
    /\ fn_out = NoFn
    /\ disk = [pc |-> "index", index_file |-> Absent, sync_file |-> Absent, sync_tmp |-> Absent,
               step |-> "idle", n |-> 0, seen |-> [file |-> "none", content |-> Absent]]

\* merge_commits line 296: open(self.commits_index_path, 'w') truncates the
\* index file itself
MergeOpenIndex ==
    /\ disk.pc = "index" /\ disk.step = "idle" /\ disk.n < MaxIndexWrites
    /\ disk' = [disk EXCEPT !.n = @ + 1, !.index_file = Partial(disk.n + 1),
                            !.step = "index_opened"]
    /\ UnchangedButDisk

\* lines 296-297: json.dump and the close of the index file
MergeDumpIndex ==
    /\ disk.pc = "index" /\ disk.step = "index_opened"
    /\ disk' = [disk EXCEPT !.index_file = Complete(disk.n), !.step = "merged"]
    /\ UnchangedButDisk

\* lines 299-301: IOError while writing, merge_commits returns 0 and
\* sync_incremental goes on
MergeIndexIOError ==
    /\ disk.pc = "index" /\ disk.step = "index_opened"
    /\ disk' = [disk EXCEPT !.step = "merged"]
    /\ UnchangedButDisk

\* sync_incremental line 227, save_sync_state line 78: open(temp_path, 'w')
AdvanceStateOpen ==
    /\ disk.pc = "index" /\ disk.step = "merged"
    /\ disk' = [disk EXCEPT !.sync_tmp = Partial(disk.n), !.step = "state_opened"]
    /\ UnchangedButDisk

\* save_sync_state lines 78-79: json.dump and the close of the temporary file
AdvanceStateDump ==
    /\ disk.pc = "index" /\ disk.step = "state_opened"
    /\ disk' = [disk EXCEPT !.sync_tmp = Complete(disk.n), !.step = "state_dumped"]
    /\ UnchangedButDisk

\* save_sync_state line 80: temp_path.rename(self.sync_state_path)
AdvanceStateRename ==
    /\ disk.pc = "index" /\ disk.step = "state_dumped"
    /\ disk' = [disk EXCEPT !.sync_file = disk.sync_tmp, !.sync_tmp = Absent,
                            !.step = "idle"]
    /\ UnchangedButDisk

\* the syncing process dies between two steps; the files stay as they are
CrashInSync ==
    /\ disk.pc = "index" /\ disk.step # "idle"
    /\ disk' = [disk EXCEPT !.step = "idle"]
    /\ UnchangedButDisk

\* a reader (merge_commits lines 252-254 of another call, or the route that
\* loads the commits) opens and reads commits_index.json
ReadIndexFile ==
    /\ disk.pc = "index"
    /\ disk' = [disk EXCEPT !.seen = [file |-> "commits_index", content |-> disk.index_file]]
    /\ UnchangedButDisk

\* load_sync_state opens and reads sync_state.json
ReadAdvancedState ==
    /\ disk.pc = "index"
    /\ disk' = [disk EXCEPT !.seen = [file |-> "sync_state", content |-> disk.sync_file]]
    /\ UnchangedButDisk

NextIndexWrite ==
    \/ MergeOpenIndex \/ MergeDumpIndex \/ MergeIndexIOError
    \/ AdvanceStateOpen \/ AdvanceStateDump \/ AdvanceStateRename
    \/ CrashInSync \/ ReadIndexFile \/ ReadAdvancedState

SpecIndexWrite == InitIndexWrite /\ [][NextIndexWrite]_vars

\* sync_state.json holds the state of sync number v only after the index
\* write of sync number v was started
StateAdvancedAfterIndexWrite ==
    disk.sync_file.kind = "complete" =>
        /\ disk.index_file.kind # "absent"
        /\ disk.index_file.version >= disk.sync_file.version

\* no reader is handed a partial index, and no crash leaves one behind
IndexNeverPartial ==
    /\ disk.seen.file = "commits_index" => disk.seen.content.kind # "partial"
    /\ disk.step = "idle" => disk.index_file.kind # "partial"

\* C29: merge_commits writes the commits index through a temporary file and
\* a rename, and the sync state is advanced only after that write: neither a
\* crash nor a concurrent reader during the index write finds a truncated or
\* partial index.
C29_IndexWrittenAtomically ==
    disk.pc = "index" => (StateAdvancedAfterIndexWrite /\ IndexNeverPartial)

----------------------------------------------------------------------------
(* Sequences of merge_commits calls on one commits_index.json *)

MaxMergeCalls == 3      \* merge_commits calls in a row
MaxIndexSha == 3        \* shas 1..MaxIndexSha in the batches
MaxCallBatch == 2       \* length of the batch of one call

\* commits_index.json holding the JSON list of the entries
IndexDocument(entries) == [kind |-> "complete", entries |-> entries]

\* commits_index.json after a write that failed in the middle of json.dump
TornIndex == [kind |-> "partial"]

\* merge_commits lines 250-257: the entries of the index file, [] when the
\* file does not exist or json.load raises on it
LoadIndex(file) == IF file.kind = "complete" THEN file.entries ELSE <<>>

NoMergeCall == [outcome |-> "none"]

InitIndex ==
    /\ PipelineInit
    /\ par = NoPar
    /\ fn_in = NoFn
    /\ fn_out = NoFn
    /\ disk = [pc |-> "merge", index_file |-> Absent, indexed |-> <<>>, calls |-> 0,
               last |-> NoMergeCall]

\* merge_commits(new_commits) whose write of the index succeeds (lines 295-298)
MergeCommitsWritten ==
    /\ disk.pc = "merge" /\ disk.calls < MaxMergeCalls
    /\ \E b \in SeqsUpTo(1..MaxIndexSha, MaxCallBatch) :
           LET merged == MergeCommits(AsCommits(b), LoadIndex(disk.index_file))
           IN  disk' = [disk EXCEPT
                          !.calls = @ + 1,
                          !.index_file = IndexDocument(merged.index),
                          !.indexed = merged.index,
                          !.last = [outcome |-> "written", batch |-> AsCommits(b),
                                    before |-> disk.indexed, returned |-> merged.added]]
    /\ UnchangedButDisk

\* merge_commits(new_commits) whose write raises IOError (lines 299-301):
\* 0 is returned; the file is untouched when open raised, and cut short when
\* json.dump raised
MergeCommitsIOError ==
    /\ disk.pc = "merge" /\ disk.calls < MaxMergeCalls
    /\ \E b \in SeqsUpTo(1..MaxIndexSha, MaxCallBatch), opened \in BOOLEAN :
           disk' = [disk EXCEPT
                      !.calls = @ + 1,
                      !.index_file = IF opened THEN TornIndex ELSE @,
                      !.last = [outcome |-> "io_error", batch |-> AsCommits(b),
                                before |-> disk.indexed, returned |-> 0]]
    /\ UnchangedButDisk

NextIndex == MergeCommitsWritten \/ MergeCommitsIOError

SpecIndex == InitIndex /\ [][NextIndex]_vars

\* the last n elements of q
LastN(q, n) == SubSeq(q, Len(q) - n + 1, Len(q))

\* C30: after any sequence of merge_commits calls the index has no two
\* entries with the same sha, every entry indexed before a call is still
\* there in its previous relative order, and the entries a call adds stand in
\* front of all entries that were there before it.
C30_IndexAppendOnlyDedupNewestFirst ==
    (disk.pc = "merge" /\ disk.last.outcome = "written") =>
        LET now == disk.index_file.entries
            before == disk.last.before
        IN  /\ NoDuplicates(Shas(now))
            /\ Len(now) = Len(before) + disk.last.returned
            /\ LastN(now, Len(before)) = before

\* a call either keeps the entries indexed before it behind the ones it adds,
\* or (the index file could not be read) leaves only the entries of its batch
AppendOnlyUnlessIndexUnreadable ==
    (disk.pc = "merge" /\ disk.last.outcome = "written") =>
        LET now == disk.index_file.entries
            before == disk.last.before
        IN  /\ NoDuplicates(Shas(now))
            /\ \/ /\ Len(now) = Len(before) + disk.last.returned
                  /\ LastN(now, Len(before)) = before
               \/ now = MergeCommits(disk.last.batch, <<>>).index

----------------------------------------------------------------------------
(* Parallel mode: worker bound and independence of the chunk contexts *)

\* C31: in parallel mode at most max_parallel_workers (default 3) chunk
\* oracle calls are in flight at any instant, and the prompt of a chunk holds
\* the commits of that chunk and the result of no other chunk.
C31_BoundedWorkersIndependentPrompts ==
    par.pc # "idle" =>
        /\ Cardinality(par.running) <= MaxParallelWorkers
        /\ \A idx \in 1..par.n :
               par.prompts[idx].built =>
                   /\ par.prompts[idx].commits = par.chunks[idx]
                   /\ par.prompts[idx].previous_evaluation = <<>>

\* all workers are busy, and the call of a running chunk was started after
\* the result of another chunk was collected
C31_Witness ==
    /\ par.pc = "running"
    /\ Cardinality(par.running) = MaxParallelWorkers
    /\ par.chunk_results # <<>>
    /\ \E idx \in par.running : idx > MaxParallelWorkers /\ par.prompts[idx].built

\* C32: in parallel mode the failure of one chunk call cancels no sibling:
\* every chunk call that was queued or running when the failure was collected
\* has run to its end before the evaluation reports the failure.
C32_SiblingsRunToCompletion ==
    par.pc = "failed" =>
        /\ par.at_raise.running \cup Range(par.at_raise.queued) \subseteq par.finished
        /\ \A idx \in 1..par.n : par.prompts[idx].built

\* the failure was collected while one sibling was running and another was
\* still queued; both have finished when the failure is reported
C32_Witness ==
    /\ par.pc = "failed"
    /\ par.at_raise.running # {}
    /\ par.at_raise.queued # <<>>
    /\ par.chunk_results # <<>>

----------------------------------------------------------------------------
(* The commit lists of the scoring calls of one evaluate_engineer call *)

MaxCallCommits == 45    \* author commits of one evaluate_engineer call

EvaluatorModes == {"moderate", "basic"}

\* one chunk size for every mode
CommitsPerChunkAnyMode(mode) == ChunkOther

\* _evaluate_engineer_chunked line 181
CommitsPerChunk(mode) == IF mode = "moderate" THEN ChunkModerate ELSE ChunkOther

\* evaluate_engineer lines 149-153 and _evaluate_engineer_chunked lines
\* 181-182: the commit list of every scoring call, in chunk order
ScoringCalls(author_commits, mode, use_chunking) ==
    IF author_commits = <<>> THEN <<>>
    ELSE IF use_chunking /\ Len(author_commits) > ChunkThreshold
         THEN Partition(author_commits, CommitsPerChunk(mode))
         ELSE <<author_commits>>

InitCalls ==
    /\ PipelineInit
    /\ par = NoPar
    /\ fn_in \in {[f |-> "scoring_calls", author_commits |-> Iota(n), mode |-> m,
                   use_chunking |-> c] :
                     n \in 0..MaxCallCommits, m \in EvaluatorModes, c \in BOOLEAN}
    /\ fn_out = NoFn
    /\ disk = NoDisk

ApplyScoringCalls ==
    /\ fn_in.f = "scoring_calls"
    /\ fn_out = NoFn
    /\ fn_out' = [f |-> "scoring_calls",
                  calls |-> ScoringCalls(fn_in.author_commits, fn_in.mode, fn_in.use_chunking)]
    /\ UnchangedPipeline /\ UNCHANGED <<par, fn_in, disk>>

SpecCalls == InitCalls /\ [][ApplyScoringCalls]_vars

\* C33: with chunking enabled, more than 20 author commits are split into
\* chunks of 15 commits in moderate mode and 20 otherwise: every chunk but
\* the last has exactly that size, the last at most that size, no chunk is
\* empty, and no scoring call is given more than 20 commits.
C33_ChunkSizes ==
    (fn_out.f = "scoring_calls" /\ fn_in.use_chunking) =>
        LET calls == fn_out.calls
            size == IF fn_in.mode = "moderate" THEN 15 ELSE 20
        IN  /\ \A k \in 1..Len(calls) : Len(calls[k]) >= 1 /\ Len(calls[k]) <= 20
            /\ Len(fn_in.author_commits) > 20 =>
                  /\ Len(calls) >= 2
                  /\ \A k \in 1..(Len(calls) - 1) : Len(calls[k]) = size
                  /\ Len(calls[Len(calls)]) <= size

\* 31 commits in moderate mode: chunks of 15, 15 and 1
C33_Witness ==
    /\ fn_out.f = "scoring_calls"
    /\ fn_in.use_chunking
    /\ fn_in.mode = "moderate"
    /\ Len(fn_out.calls) = 3
    /\ Len(fn_out.calls[3]) = 1

----------------------------------------------------------------------------
(* _parse_llm_response on the text of a response, token by token *)

MaxResponseTokens == 5  \* length of a response text in tokens

\* the pieces of a response text: the two braces, the members of a score
\* object ("dimension": 80 for every dimension), and free text without braces
ResponseTokens == {"{", "}", "scores", "text"}

ResponseTexts == SeqsUpTo(ResponseTokens, MaxResponseTokens)

\* content.find(tok): the first position of tok, 0 when there is none
FindFirst(content, tok) ==
    IF \E i \in 1..Len(content) : content[i] = tok
    THEN CHOOSE i \in 1..Len(content) :
             content[i] = tok /\ \A j \in 1..(i - 1) : content[j] # tok
    ELSE 0

\* content.rfind(tok): the last position of tok, 0 when there is none
FindLast(content, tok) ==
    IF \E i \in 1..Len(content) : content[i] = tok
    THEN CHOOSE i \in 1..Len(content) :
             content[i] = tok /\ \A j \in (i + 1)..Len(content) : content[j] # tok
    ELSE 0

\* json.loads followed by the score loop: the object with the score members,
\* the empty object (data.get(k, 0) is 0 for every dimension), or an exception
JsonLoads(text) ==
    IF text = <<"{", "scores", "}">> THEN [ok |-> TRUE, scores |-> Uniform(80)]
    ELSE IF text = <<"{", "}">> THEN [ok |-> TRUE, scores |-> Uniform(0)]
    ELSE [ok |-> FALSE, scores |-> Uniform(NeutralScore)]

\* lines 570-573: content[content.find("{") : content.rfind("}") + 1]
ExtractedObject(content) ==
    LET start == FindFirst(content, "{")
        end == FindLast(content, "}")
    IN  IF start >= 1 /\ end > start THEN SubSeq(content, start, end) ELSE <<>>

\* _parse_llm_response: the scores of the extracted object, the neutral
\* default when nothing was extracted or json.loads raised
ParseResponseText(content) ==
    LET data == JsonLoads(ExtractedObject(content))
    IN  [d \in Dimensions |-> Clamp(data.scores[d])]

InitParse ==
    /\ PipelineInit
    /\ par = NoPar
    /\ fn_in \in {[f |-> "parse", content |-> c] : c \in ResponseTexts}
    /\ fn_out = NoFn
    /\ disk = NoDisk

ApplyParse ==
    /\ fn_in.f = "parse"
    /\ fn_out = NoFn
    /\ fn_out' = [f |-> "parse", scores |-> ParseResponseText(fn_in.content)]
    /\ UnchangedPipeline /\ UNCHANGED <<par, fn_in, disk>>

SpecParse == InitParse /\ [][ApplyParse]_vars

RECURSIVE BalancedEnd(_, _, _)
\* the position of the "}" that closes the brace opened before position i,
\* depth braces being open; 0 when the text ends first
BalancedEnd(content, i, depth) ==
    IF i > Len(content) THEN 0
    ELSE IF content[i] = "{" THEN BalancedEnd(content, i + 1, depth + 1)
    ELSE IF content[i] = "}"
         THEN IF depth = 1 THEN i ELSE BalancedEnd(content, i + 1, depth - 1)
    ELSE BalancedEnd(content, i + 1, depth)

\* the first balanced {...} substring of the text, <<>> when there is none
FirstBalanced(content) ==
    LET start == FindFirst(content, "{")
        end == IF start = 0 THEN 0 ELSE BalancedEnd(content, start + 1, 1)
    IN  IF end = 0 THEN <<>> ELSE SubSeq(content, start, end)

\* C34: _parse_llm_response extracts the first balanced {...} substring of
\* the response: when that substring is a valid score object the result is
\* its scores, also when free text with braces follows it.
C34_FirstBalancedObjectParsed ==
    (fn_out.f = "parse" /\ JsonLoads(FirstBalanced(fn_in.content)).ok) =>
        fn_out.scores = JsonLoads(FirstBalanced(fn_in.content)).scores

\* the same for the responses in which no "}" follows the first balanced
\* substring
ParsedWhenNoBraceFollows ==
    (/\ fn_out.f = "parse"
     /\ JsonLoads(FirstBalanced(fn_in.content)).ok
     /\ FindLast(fn_in.content, "}") = FindFirst(fn_in.content, "}")) =>
        fn_out.scores = JsonLoads(FirstBalanced(fn_in.content)).scores

----------------------------------------------------------------------------
(* Long runs of sync_incremental: the sync history *)

MaxHistorySyncs == 52   \* commits pushed, and successful syncs, in one run

\* the Commit Source receives a commit once the previous one was synced
PushAfterSync ==
    /\ Len(remote) < MaxHistorySyncs
    /\ IF remote = <<>> THEN TRUE ELSE remote[1].sha = sync_state.last_commit_sha
    /\ remote' = <<[sha |-> Len(remote) + 1, author |-> "bob"]>> \o remote
    /\ last_op' = [op |-> "push"]
    /\ sync_result' = NoSyncResult
    /\ eval_response' = NoResponse
    /\ UNCHANGED <<sync_state, commits_index, commit_files, eval_cache, par, fn_in, fn_out, disk>>

\* sync_incremental with every commit detail fetched
SyncAll == SyncIncremental(TRUE, 1..MaxHistorySyncs)

\* sync_incremental whose commit detail requests all fail (status "error")
SyncNoDetails == SyncIncremental(TRUE, {})

\* sync_incremental whose commit list request fails
SyncNoList == SyncIncremental(FALSE, {})

NextHistory == PushAfterSync \/ SyncAll \/ SyncNoDetails \/ SyncNoList

SpecHistory == Init /\ [][NextHistory]_vars

----------------------------------------------------------------------------
(* Stores initialised by migrate_repository, then synced *)

\* a migration that starts the counter at zero
MigrateRepositoryFromZero(index) ==
    [last_commit_sha |-> index[1].sha, last_commit_date |-> CommitDate(index[1]),
     total_commits_fetched |-> 0,
     sync_history |-> <<[commits_added |-> Len(index), last_sha |-> index[1].sha,
                         mode |-> "migration"]>>]

\* migrate_repository lines 45-61: the sync state written for a repository
\* that has a non-empty commits_index.json and no sync_state.json
MigrateRepository(index) ==
    [last_commit_sha |-> index[1].sha, last_commit_date |-> CommitDate(index[1]),
     total_commits_fetched |-> Len(index),
     sync_history |-> <<[commits_added |-> Len(index), last_sha |-> index[1].sha,
                         mode |-> "migration"]>>]

\* a repository fetched before incremental sync existed: its commits are
\* indexed newest first and their files stored, then migrate_repository ran
InitMigrated ==
    /\ \E n \in 1..MaxRemote, a \in [1..MaxRemote -> CommitAuthors] :
           LET commits == [i \in 1..n |-> [sha |-> n + 1 - i, author |-> a[n + 1 - i]]]
           IN  /\ remote = commits
               /\ commits_index = commits
               /\ commit_files = Range(Shas(commits))
               /\ sync_state = MigrateRepository(commits)
    /\ sync_result = NoSyncResult
    /\ eval_cache = [k \in CacheKeys |-> NoEval]
    /\ eval_response = NoResponse
    /\ last_op = NoOp
    /\ par = NoPar
    /\ fn_in = NoFn
    /\ fn_out = NoFn
    /\ disk = NoDisk

\* an empty store, or a store initialised by migrate_repository
InitStores == Init \/ InitMigrated

NextStores == Push \/ Sync

SpecStores == InitStores /\ [][NextStores]_vars

----------------------------------------------------------------------------
(* The commits counted by a first evaluation and the commits in its prompts *)

MaxCountCommits == 52   \* commits of the request author in the local data

ContextCommitLimit == 50    \* _build_commit_context lists commits[:50]

\* _build_commit_context line 385: the commits listed in one prompt
ContextCommits(commits) == Take(commits, ContextCommitLimit)

\* evaluate_engineer lines 147-153 down to _build_commit_context: the commits
\* listed in the prompts of the scoring calls, in call order
PromptedCommits(commits, username, max_commits, use_chunking) ==
    LET analyzed == AnalyzedCommits(commits, max_commits)
        author_commits == FilterSeq(analyzed, {c \in Range(analyzed) :
                                                   IsCommitByAuthor(c, username)})
        calls == ScoringCalls(author_commits, "moderate", use_chunking)
    IN  Concat([k \in 1..Len(calls) |-> ContextCommits(calls[k])])

InitCount ==
    /\ PipelineInit
    /\ par = NoPar
    /\ fn_in \in {[f |-> "count", commits |-> MixedHistory(n, others), author |-> "alice",
                   aliases |-> a, use_chunking |-> c] :
                     n \in 0..MaxCountCommits, others \in 0..1, a \in RequestAliases,
                     c \in BOOLEAN}
    /\ fn_out = NoFn
    /\ disk = NoDisk

\* a first evaluation whose oracle calls all answer
ApplyCount ==
    /\ fn_in.f = "count"
    /\ fn_out = NoFn
    /\ LET r == EvaluateAuthorIncremental(fn_in.commits, fn_in.author, NoEval,
                                          fn_in.use_chunking, fn_in.aliases, TRUE, TRUE,
                                          [fail_at |-> 0, vec |-> Uniform(80)])
           handed == AuthorCommits(fn_in.commits, fn_in.author, fn_in.aliases)
       IN  fn_out' = [f |-> "count",
                      counted |-> r.evaluation.total_commits_evaluated,
                      prompted |-> Shas(PromptedCommits(handed, fn_in.author, MaxCommits,
                                                        fn_in.use_chunking))]
    /\ UnchangedPipeline /\ UNCHANGED <<par, fn_in, disk>>

SpecCount == InitCount /\ [][ApplyCount]_vars

\* C37: every commit counted in total_commits_evaluated was listed in the
\* prompt of a scoring call: the stored count never exceeds the number of
\* commits the evaluator analysed, for every author, aliases and use_chunking.
C37_CountedCommitsWerePrompted ==
    fn_out.f = "count" => fn_out.counted <= Len(fn_out.prompted)

\* the same for requests without aliases that chunk, or that have at most
\* 50 commits of the author
CountedWerePromptedPlainRequest ==
    (/\ fn_out.f = "count"
     /\ fn_in.aliases = <<>>
     /\ fn_in.use_chunking \/ fn_out.counted <= 50) =>
        fn_out.counted = Len(fn_out.prompted)

----------------------------------------------------------------------------
(* Two evaluation requests for the same cache file, step by step *)

MaxRaceNew == 2         \* commits of the author that are newer than the cache entry

RaceRequests == {1, 2}

\* the cache entry written by a first evaluation of the oldest `old` commits
\* of a history of n commits
EvaluationOfOld(n, old) ==
    LET r == EvaluateAuthorIncremental(SubSeq(LongHistory(n), n - old + 1, n), "alice", NoEval,
                                       TRUE, <<>>, TRUE, TRUE,
                                       [fail_at |-> 0, vec |-> Uniform(80)])
    IN  [r.evaluation EXCEPT !.keys = @ \cup {"plugin", "plugin_version"}]

\* the cache file holding the JSON document of an evaluation
CacheDocument(evaluation) == [kind |-> "complete", evaluation |-> evaluation]

\* the cache file between open(eval_path, 'w') and the end of json.dump
CacheTruncated == [kind |-> "partial"]

\* the previous evaluation a request starts from: None when json.load raises
\* on the file
LoadCached(file) ==
    IF file.kind = "complete" THEN file.evaluation ELSE NoEval

IdleRequest == [pc |-> "start", previous |-> NoEval, evaluation |-> NoEval]

\* the author has old + new commits in the local data and was evaluated when
\* the old ones were there
InitRace ==
    /\ \E old \in {1, 2, MaxCommits}, new \in 1..MaxRaceNew :
           /\ remote = LongHistory(old + new)
           /\ commits_index = LongHistory(old + new)
           /\ commit_files = 1..(old + new)
           /\ disk = [pc |-> "race", new |-> new,
                      before |-> EvaluationOfOld(old + new, old),
                      cache_file |-> CacheDocument(EvaluationOfOld(old + new, old)),
                      req |-> [r \in RaceRequests |-> IdleRequest]]
    /\ sync_state = DefaultSyncState
    /\ sync_result = NoSyncResult
    /\ eval_cache = [k \in CacheKeys |-> NoEval]
    /\ eval_response = NoResponse
    /\ last_op = NoOp
    /\ par = NoPar
    /\ fn_in = NoFn
    /\ fn_out = NoFn

\* lines 166-171: the request loads the previous evaluation
RaceLoad(r) ==
    /\ disk.pc = "race" /\ disk.req[r].pc = "start"
    /\ disk' = [disk EXCEPT !.req[r].pc = "loaded",
                            !.req[r].previous = LoadCached(disk.cache_file)]
    /\ UnchangedButDisk

\* lines 189-204: evaluate_author_incremental returns (every oracle call
\* answers)
RaceEvaluate(r) ==
    /\ disk.pc = "race" /\ disk.req[r].pc = "loaded"
    /\ LET e == EvaluateAuthorIncremental(LoadCommitsFromLocal, "alice", disk.req[r].previous,
                                          TRUE, <<>>, TRUE, TRUE,
                                          [fail_at |-> 0, vec |-> Uniform(80)])
       IN  disk' = [disk EXCEPT
                      !.req[r].pc = "evaluated",
                      !.req[r].evaluation =
                          [e.evaluation EXCEPT !.keys = @ \cup {"plugin", "plugin_version"}]]
    /\ UnchangedButDisk

\* line 209: open(eval_path, 'w') truncates the cache file
RaceOpen(r) ==
    /\ disk.pc = "race" /\ disk.req[r].pc = "evaluated"
    /\ disk' = [disk EXCEPT !.req[r].pc = "opened", !.cache_file = CacheTruncated]
    /\ UnchangedButDisk

\* line 210: json.dump and the close of the cache file
RaceDump(r) ==
    /\ disk.pc = "race" /\ disk.req[r].pc = "opened"
    /\ disk' = [disk EXCEPT !.req[r].pc = "done",
                            !.cache_file = CacheDocument(disk.req[r].evaluation)]
    /\ UnchangedButDisk

NextRace == \E r \in RaceRequests : RaceLoad(r) \/ RaceEvaluate(r) \/ RaceOpen(r) \/ RaceDump(r)

SpecRace == InitRace /\ [][NextRace]_vars

BothRequestsDone == disk.pc = "race" /\ \A r \in RaceRequests : disk.req[r].pc = "done"

\* C38: two concurrent requests for the same repository, author and strategy
\* over the same local commits: in every interleaving of their cache reads
\* and writes the cached total_commits_evaluated after both have finished is
\* the previous count plus the number of new commits.
C38_ConcurrentRequestsCountOnce ==
    BothRequestsDone =>
        /\ disk.cache_file.kind = "complete"
        /\ disk.cache_file.evaluation.total_commits_evaluated =
               disk.before.total_commits_evaluated + disk.new

\* the same for authors whose commits fit the cap of a first evaluation
CountOnceBelowCap ==
    (BothRequestsDone /\ Len(commits_index) <= MaxCommits) =>
        /\ disk.cache_file.kind = "complete"
        /\ disk.cache_file.evaluation.total_commits_evaluated =
               disk.before.total_commits_evaluated + disk.new

----------------------------------------------------------------------------
(* The status sync_incremental reports *)

\* the commits of the Commit Source that are newer than the boundary the
\* last sync started from
NewerThanBoundary == {c \in Range(remote) : c.sha > last_op.before.last_commit_sha}

\* a call to the Commit Source failed during the last sync: the list fetch,
\* or the detail fetch of a new commit
SourceCallFailed == ~last_op.list_ok \/ Range(last_op.new) \ last_op.ok # {}

\* C39: sync_incremental reports "up_to_date" only when the commit list was
\* fetched and holds no commit newer than the stored boundary, and a sync
\* in which a call to the Commit Source failed reports "error".
C39_FailedFetchReportedAsError ==
    last_op.op = "sync" =>
        /\ sync_result.status = "up_to_date" => (last_op.list_ok /\ NewerThanBoundary = {})
        /\ SourceCallFailed => sync_result.status = "error"

\* "up_to_date" after a fetched list means that nothing is newer than the
\* boundary, and a sync in which no detail fetch succeeded reports "error"
StatusAfterFetchedList ==
    (last_op.op = "sync" /\ last_op.list_ok) =>
        /\ sync_result.status = "up_to_date" <=> NewerThanBoundary = {}
        /\ (last_op.new # <<>> /\ last_op.ok = {}) <=> sync_result.status = "error"

====
